---- MODULE Spec2Model ----
(***************************************************************************)
(* Voice engine of the triple-oscillator synthesizer (src/src/lib.rs):     *)
(* the envelope generator, the voice, the 16-voice pool with its           *)
(* allocation / stealing policy, and the block callback SineSynth::process *)
(* (event drain followed by the per-sample render loop); the unison        *)
(* oscillator bank and the biquad filter's coefficients; and the MCP       *)
(* server's setter tools on the shared PluginState (src/src/mcp_server.rs).*)
(*                                                                         *)
(* Number representation.  The code works on f32; the model uses exact     *)
(* integer fixed point:                                                    *)
(*   - a level / velocity / sustain x is the integer x * LevelOne;         *)
(*   - a time t in seconds is the integer t * TimeDen; the stage lengths   *)
(*     are computed from it in f32, digit for digit;                       *)
(*   - a frequency f in Hz is the integer f * 100 (centi-Hz);              *)
(*   - a phase is counted in 1/PhaseOne of a turn (TAU = PhaseOne).        *)
(* A filter history cell is 0 (the value 0.0 written by reset) or 1 (a     *)
(* value written by BiquadFilter::process).                                *)
(***************************************************************************)
EXTENDS Integers, Sequences, FiniteSets, TLC

VARIABLES
    voices,        \* SineSynth.voices: the pool, index 1..PoolSize
    sample_rate,   \* SineSynth.sample_rate
    params,        \* the values of the parameters: the targets of their smoothers
    smoothers,     \* the smoothers of attack, decay, sustain, release, unison_detune1
    pc,            \* where the host / the block callback is
    queue,         \* events of the current block not yet returned by next_event()
    frames,        \* samples of the current block not yet rendered
    delivered,     \* history: the events the host delivered for the current block
    applied,       \* history: the events applied so far in the current block
    last,          \* history: the last operation and what it touched
    run,           \* history: NoteOns (velocity > 0) since the pool was last all inactive
    runOk,         \* history: no NoteOff / Choke since the run began
    ops,           \* number of host operations so far
    env,           \* a single Envelope driven on its own
    envParams,     \* the constant parameters of the single envelope
    envCalls,      \* history: process calls since the last note_on / note_off
    envSince,      \* history: the last of note_on / note_off on the single envelope
    envFrom,       \* history: the stage that note_on / note_off was issued in
    unison,        \* a single UnisonOscillator driven on its own
    unisonIn,      \* the constant arguments the single bank is processed with
    unisonCalls,   \* history: process calls on the single bank since new / reset
    unisonLast,    \* history: the last call on the single bank, its arguments and result
    vc,            \* a single Voice driven on its own
    vcLast,        \* history: the last call on the single voice
    vcOps,         \* number of calls on the single voice so far
    hold,          \* a single Envelope whose samples_elapsed is kept as two 16-bit limbs
    holdStatus,    \* "running", or what the increment did when it overflowed
    flt,           \* the coefficients of a single BiquadFilter driven on its own
    fltIn,         \* the arguments the single filter's coefficients are set with
    fltLast,       \* history: the Q and alpha the last set_coefficients computed
    rel,           \* history: samples rendered since the single voice entered Release
    mcp,           \* the PluginState shared by the MCP tool handlers
    mcpLock,       \* the client that holds the write lock on the PluginState, or 0
    mcpPc,         \* each client's tool call: "idle", "waiting" for the lock, "writing"
    mcpReq,        \* the tool call each client has in flight
    mcpLast,       \* history: the last tool call that returned, and the state it found
    mcpCalls,      \* number of tool calls issued so far
    mcpRead        \* history: the envelope times the render loop read for its last sample

vars == << voices, sample_rate, params, smoothers, pc, queue, frames, delivered, applied,
           last, run, runOk, ops, env, envParams, envCalls, envSince, envFrom,
           unison, unisonIn, unisonCalls, unisonLast, vc, vcLast, vcOps, hold, holdStatus,
           flt, fltIn, fltLast, rel, mcp, mcpLock, mcpPc, mcpReq, mcpLast, mcpCalls,
           mcpRead >>

poolVars == << voices, sample_rate, params, smoothers, pc, queue, frames, delivered,
               applied, last, run, runOk, ops >>

envVars == << env, envParams, envCalls, envSince, envFrom >>

unisonVars == << unison, unisonIn, unisonCalls, unisonLast >>

vcVars == << vc, vcLast, vcOps >>

holdVars == << hold, holdStatus >>

fltVars == << flt, fltIn, fltLast >>

relVars == << rel >>

mcpVars == << mcp, mcpLock, mcpPc, mcpReq, mcpLast, mcpCalls, mcpRead >>

----------------------------------------------------------------------------
(* Program constants and representation units *)

PoolSize == 16

DefaultSampleRate == 44100

LevelOne == 10000

TimeDen == 2000

PhaseOne == 100000

MinTime == TimeDen \div 1000

Max(a, b) == IF a >= b THEN a ELSE b

Min(a, b) == IF a <= b THEN a ELSE b

RECURSIVE Pow2(_)
Pow2(p) == IF p <= 0 THEN 1 ELSE 2 * Pow2(p - 1)

----------------------------------------------------------------------------
(* Envelope *)

\* exp(-5 * num / den) in LevelOne units, for 0 <= num < den:
\* exp(-u)^8 with u = 5*num/(8*den) < 0.625 by its Taylor polynomial of degree 4.
ExpNeg5(num, den) ==
    LET p  == (num * LevelOne) \div den
        u  == (5 * p) \div 8
        u2 == (u * u) \div LevelOne
        u3 == (u2 * u) \div LevelOne
        u4 == (u3 * u) \div LevelOne
        t  == LevelOne - u + (u2 \div 2) - (u3 \div 6) + (u4 \div 24)
        s1 == (t * t) \div LevelOne
        s2 == (s1 * s1) \div LevelOne
    IN  (s2 * s2) \div LevelOne

\* The number of binary digits of w >= 0.
RECURSIVE BitLength(_)
BitLength(w) == IF w = 0 THEN 0 ELSE 1 + BitLength(w \div 2)

\* TimeDen = TimeOdd * 2^TimeShift
TimeOdd == 125

TimeShift == 4

\* An f32 value is s * m * 2^(-e) with s = 1 or -1 and 2^23 <= m < 2^24, or
\* m = 0 for zero.
F32Zero == [ s |-> 1, m |-> 0, e |-> 0 ]

\* The f32 nearest to t / TimeDen seconds, 0 <= t < 2^30.  t is shifted left by
\* k so that n = t * 2^k lies in [TimeOdd * 2^23, TimeOdd * 2^24), which fits in
\* 31 bits; then m is n / TimeOdd rounded to nearest (TimeOdd is odd, so there
\* is no tie), and e = k + TimeShift.
F32OfTime(t) ==
    LET len   == BitLength(t)
        shift == IF t * Pow2(30 - len) >= TimeOdd * 8388608 THEN 30 - len ELSE 31 - len
        num   == t * Pow2(shift)
        sig   == num \div TimeOdd + (IF 2 * (num % TimeOdd) > TimeOdd THEN 1 ELSE 0)
    IN  IF t = 0 THEN F32Zero
        ELSE IF sig = 16777216
        THEN [ s |-> 1, m |-> 8388608, e |-> shift + TimeShift - 1 ]
        ELSE [ s |-> 1, m |-> sig, e |-> shift + TimeShift ]

F32Neg(x) == [ x EXCEPT !.s = -x.s ]

\* |x| >= |y|
F32MagGe(x, y) ==
    y.m = 0 \/ (x.m # 0 /\ (x.e < y.e \/ (x.e = y.e /\ x.m >= y.m)))

\* f32::max of two values that are not negative
F32Max(x, y) == IF F32MagGe(x, y) THEN x ELSE y

\* sign * mag * 2^(-exp), 0 <= mag < 2^31, rounded to 24 digits, ties to even.
F32Round(sign, mag, exp) ==
    LET len  == BitLength(mag)
        sh   == len - 24
        quo  == mag \div Pow2(sh)
        rem  == mag % Pow2(sh)
        half == Pow2(sh - 1)
        sig  == IF rem > half \/ (rem = half /\ quo % 2 = 1) THEN quo + 1 ELSE quo
    IN  IF mag = 0 THEN F32Zero
        ELSE IF len <= 24
        THEN [ s |-> sign, m |-> mag * Pow2(24 - len), e |-> exp + 24 - len ]
        ELSE IF sig = 16777216
        THEN [ s |-> sign, m |-> 8388608, e |-> exp - sh - 1 ]
        ELSE [ s |-> sign, m |-> sig, e |-> exp - sh ]

\* The f32 sum x + y.  The operand of the smaller magnitude is aligned to the
\* larger with three guard digits and a sticky digit, which is enough for the
\* rounding to nearest to be that of the exact sum.
F32Add(x, y) ==
    IF x.m = 0 THEN y
    ELSE IF y.m = 0 THEN x
    ELSE LET big    == IF F32MagGe(x, y) THEN x ELSE y
             small  == IF F32MagGe(x, y) THEN y ELSE x
             d      == Min(small.e - big.e, 27)
             sticky == IF (small.m * 8) % Pow2(d) # 0 THEN 1 ELSE 0
             part   == 2 * ((small.m * 8) \div Pow2(d)) + sticky
             mag    == IF big.s = small.s THEN big.m * 16 + part
                                          ELSE big.m * 16 - part
         IN  F32Round(big.s, mag, big.e + 4)

F32Sub(x, y) == F32Add(x, F32Neg(y))

\* Long division: the quotient quo and remainder r of a significand by n, taken
\* one binary digit further until the quotient has 24 digits.
RECURSIVE F32Quotient(_, _, _, _)
F32Quotient(quo, r, n, exp) ==
    IF quo >= 8388608 THEN [ quo |-> quo, r |-> r, exp |-> exp ]
    ELSE IF 2 * r >= n THEN F32Quotient(2 * quo + 1, 2 * r - n, n, exp + 1)
    ELSE F32Quotient(2 * quo, 2 * r, n, exp + 1)

\* The f32 quotient x / (n as f32) for a whole n, 0 < n < 2^24.
F32DivInt(x, n) ==
    IF x.m = 0 THEN F32Zero
    ELSE LET d   == F32Quotient(x.m \div n, x.m % n, n, x.e)
             sig == IF 2 * d.r > n \/ (2 * d.r = n /\ d.quo % 2 = 1)
                    THEN d.quo + 1 ELSE d.quo
         IN  IF sig = 16777216
             THEN [ s |-> x.s, m |-> 8388608, e |-> d.exp - 1 ]
             ELSE [ s |-> x.s, m |-> sig, e |-> d.exp ]

\* The f32 product x * sr truncated to an integer, for x = m * 2^(-e) with
\* e >= 12 and a whole sr < 2^19.  The exact product is H * 4096 + L over 2^e;
\* q is its integer part.  The significand keeps f = 24 - BitLength(q) digits of
\* the fraction, so rounding to nearest carries into q exactly when the top
\* f + 1 digits of the fraction are all ones.
F32MulTrunc(x, sr) ==
    LET mh  == x.m \div 4096
        ml  == x.m % 4096
        H   == mh * sr + (ml * sr) \div 4096
        L   == (ml * sr) % 4096
        d   == Pow2(x.e - 12)
        q   == H \div d
        rH  == H % d
        f   == 24 - BitLength(q)
        s   == x.e - f - 1
        top == IF s >= 12 THEN rH \div Pow2(s - 12)
                          ELSE rH * Pow2(12 - s) + L \div Pow2(s)
    IN  IF s >= 0 /\ top = Pow2(f + 1) - 1 THEN q + 1 ELSE q

\* Faulty variant: the stage length rounded up instead of truncated.
StageSamplesCeil(t, sr) == (Max(t * sr, TimeDen) + TimeDen - 1) \div TimeDen

\* (x * sample_rate).max(1.0) as u32 for an f32 time x >= 0: the product is
\* taken in f32.
StageLength32(x, sr) ==
    IF x.m = 0 THEN 1 ELSE Max(F32MulTrunc(x, sr), 1)

\* The same for t, the f32 nearest to t / TimeDen.
StageLength(t, sr) == StageLength32(F32OfTime(t), sr)

\* The rows << t, sr, StageLength(t, sr) >> of the short times at the low sample
\* rates, computed once.
StageTable ==
    { << t, sr, StageLength(t, sr) >> : t \in 0..20, sr \in { 1000, 3000 } }

StageSamples(t, sr) ==
    LET rows == { row \in StageTable : row[1] = t /\ row[2] = sr }
    IN  IF rows = { } THEN StageLength(t, sr) ELSE (CHOOSE row \in rows : TRUE)[3]

EnvelopeNew(sr) ==
    [ stage |-> "Idle", current_level |-> 0, sample_rate |-> sr,
      samples_elapsed |-> 0, release_start_level |-> 0 ]

EnvelopeNoteOn(e) ==
    [ e EXCEPT !.stage = "Attack", !.samples_elapsed = 0 ]

\* Faulty variant: note_off without the test for Idle.
EnvelopeNoteOffAlways(e) ==
    [ e EXCEPT !.release_start_level = e.current_level,
               !.stage = "Release",
               !.samples_elapsed = 0 ]

EnvelopeNoteOff(e) ==
    IF e.stage # "Idle"
    THEN [ e EXCEPT !.release_start_level = e.current_level,
                    !.stage = "Release",
                    !.samples_elapsed = 0 ]
    ELSE e

\* Faulty variant: the stage completes one call later.
StageDoneLate(elapsed, n) == elapsed > n

\* The stage completes when samples_elapsed has reached the stage's length.
StageDone(elapsed, n) == elapsed >= n

\* Faulty variant: the end of the release leaves the level where it was.
ReleaseDoneKeepsLevel(e) == [ e EXCEPT !.stage = "Idle", !.samples_elapsed = 0 ]

\* Faulty variant: the end of the release falls back to Sustain.
ReleaseDoneSustains(e) == [ e EXCEPT !.stage = "Sustain", !.samples_elapsed = 0 ]

\* The Release arm on completion: level 0, stage Idle, counter 0.
ReleaseDone(e) ==
    [ e EXCEPT !.current_level = 0, !.stage = "Idle", !.samples_elapsed = 0 ]

\* The arms of the match on self.stage, given the lengths in samples of the
\* attack, the decay and the release.
EnvelopeArm(e, attack_samples, decay_samples, sustain, release_samples) ==
    CASE e.stage = "Idle" -> [ e EXCEPT !.current_level = 0 ]
      [] e.stage = "Attack" ->
            IF StageDone(e.samples_elapsed, attack_samples)
            THEN [ e EXCEPT !.current_level = LevelOne,
                            !.stage = "Decay",
                            !.samples_elapsed = 0 ]
            ELSE [ e EXCEPT !.current_level =
                                LevelOne - ExpNeg5(e.samples_elapsed, attack_samples) ]
      [] e.stage = "Decay" ->
            IF StageDone(e.samples_elapsed, decay_samples)
            THEN [ e EXCEPT !.current_level = sustain,
                            !.stage = "Sustain",
                            !.samples_elapsed = 0 ]
            ELSE [ e EXCEPT !.current_level =
                                sustain + ((LevelOne - sustain)
                                    * ExpNeg5(e.samples_elapsed, decay_samples))
                                        \div LevelOne ]
      [] e.stage = "Sustain" -> [ e EXCEPT !.current_level = sustain ]
      [] e.stage = "Release" ->
            IF StageDone(e.samples_elapsed, release_samples)
            THEN ReleaseDone(e)
            ELSE [ e EXCEPT !.current_level =
                                (e.release_start_level
                                    * ExpNeg5(e.samples_elapsed, release_samples))
                                        \div LevelOne ]

\* The match on self.stage, before the counter is advanced, for times in
\* TimeDen units.
EnvelopeStep(e, attack, decay, sustain, release) ==
    EnvelopeArm(e, StageSamples(attack, e.sample_rate),
                   StageSamples(decay, e.sample_rate), sustain,
                   StageSamples(release, e.sample_rate))

\* Envelope::process: the stage step, then samples_elapsed += 1.
EnvelopeProcess(e, attack, decay, sustain, release) ==
    LET s == EnvelopeStep(e, attack, decay, sustain, release)
    IN  [ s EXCEPT !.samples_elapsed = s.samples_elapsed + 1 ]

\* Envelope::process for f32 times, the values a ramping smoother hands over.
EnvelopeProcess32(e, attack, decay, sustain, release) ==
    LET s == EnvelopeArm(e, StageLength32(attack, e.sample_rate),
                            StageLength32(decay, e.sample_rate), sustain,
                            StageLength32(release, e.sample_rate))
    IN  [ s EXCEPT !.samples_elapsed = s.samples_elapsed + 1 ]

EnvelopeIsActive(e) == e.stage # "Idle"

----------------------------------------------------------------------------
(* Voice *)

NumBanks == 3

\* 440 * 2^(k/12) in centi-Hz, k = 0..11
SemitoneCentiHz ==
    << 44000, 46616, 49388, 52325, 55437, 58733,
       62225, 65926, 69846, 73999, 78399, 83061 >>

\* 440.0 * 2^((note - 69) / 12), in centi-Hz
BaseFrequency(note) ==
    LET d   == note - 69
        oct == d \div 12
        f   == SemitoneCentiHz[(d % 12) + 1]
    IN  IF oct >= 0 THEN f * Pow2(oct) ELSE f \div Pow2(-oct)

\* BiquadFilter::new: the coefficients of the identity filter, in LevelOne
\* units, and an empty history.
FilterNew(sr) ==
    [ b0 |-> LevelOne, b1 |-> 0, b2 |-> 0, a1 |-> 0, a2 |-> 0,
      x1 |-> 0, x2 |-> 0, y1 |-> 0, y2 |-> 0, sample_rate |-> sr ]

\* BiquadFilter::reset
FilterReset(f) == [ f EXCEPT !.x1 = 0, !.x2 = 0, !.y1 = 0, !.y2 = 0 ]

\* BiquadFilter::set_sample_rate: the rate is stored and the history cleared;
\* the coefficients stay.
FilterSetSampleRate(f, sr) == FilterReset([ f EXCEPT !.sample_rate = sr ])

\* BiquadFilter::process: the history shifts and takes the new input and output.
FilterProcess(f) == [ f EXCEPT !.x1 = 1, !.x2 = f.x1, !.y1 = 1, !.y2 = f.y1 ]

\* What f32::clamp does when its upper bound is below its lower bound: the call
\* panics.  No cutoff is negative, so the value stands for no frequency.
ClampPanic == -1

\* cutoff.clamp(20.0, self.sample_rate * 0.49), in centi-Hz: clamp asserts
\* min <= max, which fails for a sample rate below 20 / 0.49 Hz.
FilterCutoff(cutoff, sr) ==
    IF 49 * sr < 2000 THEN ClampPanic ELSE Max(2000, Min(cutoff, 49 * sr))

\* (resonance * 10.0 + 0.5).max(0.1), in LevelOne units
FilterQ(resonance) == Max(10 * resonance + LevelOne \div 2, LevelOne \div 10)

\* omega as a fraction of pi: 2 * cutoff / sample_rate, in LevelOne units
OmegaOverPi(cutoff, sr) == (cutoff * 2 * (LevelOne \div 100)) \div sr

\* sin(pi * t) for 0 <= t <= 1 by 16 t (1 - t) / (5 - 4 t (1 - t))
SinOmega(t) ==
    LET u == (t * (LevelOne - t)) \div LevelOne
    IN  (16 * u * LevelOne) \div (5 * LevelOne - 4 * u)

\* cos(pi * t) for 0 <= t <= 1 by (1 - 4 t^2) / (1 + t^2) about 0, mirrored above 1/2
CosOmega(t) ==
    LET r  == IF 2 * t <= LevelOne THEN t ELSE LevelOne - t
        r2 == (r * r) \div LevelOne
        c  == ((LevelOne - 4 * r2) * LevelOne) \div (LevelOne + r2)
    IN  IF 2 * t <= LevelOne THEN c ELSE -c

\* sin_omega / (2.0 * q), for a sample rate the clamp accepts
FilterAlpha(cutoff, resonance, sr) ==
    (SinOmega(OmegaOverPi(FilterCutoff(cutoff, sr), sr)) * LevelOne)
        \div (2 * FilterQ(resonance))

\* BiquadFilter::set_coefficients: the five coefficients of the chosen mode.  The
\* clamp is the first statement, so a call that panics has written nothing.
FilterSetCoefficients(f, mode, cutoff, resonance) ==
    LET alpha == FilterAlpha(cutoff, resonance, f.sample_rate)
        cosw  == CosOmega(OmegaOverPi(FilterCutoff(cutoff, f.sample_rate), f.sample_rate))
        norm  == LevelOne + alpha
        over(x) == (x * LevelOne) \div norm
        a1    == over(-2 * cosw)
        a2    == over(LevelOne - alpha)
    IN  CASE FilterCutoff(cutoff, f.sample_rate) = ClampPanic -> f
          [] mode = "LowPass" ->
                [ f EXCEPT !.b0 = over((LevelOne - cosw) \div 2),
                           !.b1 = over(LevelOne - cosw),
                           !.b2 = over((LevelOne - cosw) \div 2),
                           !.a1 = a1, !.a2 = a2 ]
          [] mode = "HighPass" ->
                [ f EXCEPT !.b0 = over((LevelOne + cosw) \div 2),
                           !.b1 = over(-(LevelOne + cosw)),
                           !.b2 = over((LevelOne + cosw) \div 2),
                           !.a1 = a1, !.a2 = a2 ]
          [] mode = "BandPass" ->
                [ f EXCEPT !.b0 = over(alpha), !.b1 = 0, !.b2 = over(-alpha),
                           !.a1 = a1, !.a2 = a2 ]
          [] mode = "Notch" ->
                [ f EXCEPT !.b0 = over(LevelOne), !.b1 = a1, !.b2 = over(LevelOne),
                           !.a1 = a1, !.a2 = a2 ]

\* Capacity of a unison bank: UnisonOscillator::new(8)
BankCapacity == 8

\* A detune_offset x is the integer x * OffsetOne; OffsetOne is a multiple of
\* every n - 1 for n in 1..BankCapacity, so the spread positions are exact.
OffsetOne == 420

\* (i - (n - 1) / 2) / ((n - 1) / 2) for the slot of 0-based index i, n > 1
SpreadOffset(i, n) == ((2 * i - (n - 1)) * OffsetOne) \div (n - 1)

\* UnisonOscillator::new: slot k of the model is index k - 1 of the code.
BankNew(max_voices) ==
    [ num_voices |-> 1,
      phase |-> [ k \in 1..max_voices |-> 0 ],
      detune_offset |-> [ k \in 1..max_voices |->
                            IF max_voices = 1 THEN 0
                            ELSE SpreadOffset(k - 1, max_voices) ] ]

\* Faulty variant: the lower bound of the clamp is forgotten.
ClampVoicesUpper(n, len) == Min(n, len)

\* num_voices.min(self.voices.len()).max(1)
ClampVoices(n, len) == Max(Min(n, len), 1)

\* UnisonOscillator::set_num_voices
BankSetNumVoices(bank, n) ==
    LET nv == ClampVoices(n, Len(bank.phase))
    IN  [ bank EXCEPT !.num_voices = nv,
                      !.detune_offset = [ k \in 1..Len(bank.phase) |->
                                            IF nv = 1 THEN 0
                                            ELSE SpreadOffset(k - 1, nv) ] ]

\* Faulty variant: reset rewinds only the first oscillator voice.
BankResetFirst(bank) == [ bank EXCEPT !.phase[1] = 0 ]

\* UnisonOscillator::reset: every phase back to 0.
BankReset(bank) == [ bank EXCEPT !.phase = [ k \in 1..Len(bank.phase) |-> 0 ] ]

\* osc1.reset(); osc2.reset(); osc3.reset()
OscReset(osc) == [ b \in 1..NumBanks |-> BankReset(osc[b]) ]

VoiceNew(sr) ==
    [ active |-> FALSE, note |-> 0, velocity |-> 0, base_frequency |-> 44000,
      osc |-> [ b \in 1..NumBanks |-> BankNew(BankCapacity) ],
      filter |-> FilterNew(sr),
      envelope |-> EnvelopeNew(sr) ]

VoiceNoteOn(v, note, velocity) ==
    [ v EXCEPT !.active = TRUE,
               !.note = note,
               !.velocity = velocity,
               !.base_frequency = BaseFrequency(note),
               !.osc = OscReset(v.osc),
               !.filter = FilterReset(v.filter),
               !.envelope = EnvelopeNoteOn(v.envelope) ]

\* Faulty variant: note_off frees the voice at once.
VoiceNoteOffDeactivates(v) ==
    [ v EXCEPT !.active = FALSE, !.envelope = EnvelopeNoteOff(v.envelope) ]

VoiceNoteOff(v) == [ v EXCEPT !.envelope = EnvelopeNoteOff(v.envelope) ]

VoiceIsActive(v) == EnvelopeIsActive(v.envelope)

\* Voice::set_sample_rate: filter.set_sample_rate (which resets the filter)
\* and envelope.set_sample_rate.
VoiceSetSampleRate(v, sr) ==
    [ v EXCEPT !.filter = FilterSetSampleRate(v.filter, sr),
               !.envelope = [ v.envelope EXCEPT !.sample_rate = sr ] ]

----------------------------------------------------------------------------
(* Render loop, one voice *)

\* SineParams defaults of the three banks: octave, frequency (centi-Hz);
\* detune 0, phase 0.
OctaveParam == << 0, -1, 1 >>

FrequencyParam == << 44000, 88000, 22000 >>

\* The largest integer of the model: it stands for every usize at or above it.
UsizeTop == 2147483647

\* "value() as usize": a negative i32 sign-extends to 2^64 + v, which is above
\* every i32, so each negative value lands on the top of the model's range.
AsUsize(v) == IF v < 0 THEN UsizeTop ELSE v

\* floor(a * b / c) without leaving 32 bits, for c * c < 2^31
MulDiv(a, b, c) ==
    (a \div c) * b + (a % c) * (b \div c) + ((a % c) * (b % c)) \div c

\* base_frequency * 2^octave * (frequency / 440) * 2^(detune / 1200), detune = 0,
\* in centi-Hz
EffectiveFreqOf(base, octave, frequency) ==
    IF octave >= 0
    THEN MulDiv(base * Pow2(octave), frequency, 44000)
    ELSE MulDiv(base, frequency, 44000) \div Pow2(-octave)

\* The pitch of bank b: octave<b>.value() is read as it is, and frequency<b>
\* stays at its default.
EffectiveFreq(base, octave, b) == EffectiveFreqOf(base, octave[b], FrequencyParam[b])

\* phase += phase_incr; if phase >= TAU { phase -= TAU }: one wrap.
OscAdvance(phase, freq, sr) ==
    LET incr == (freq * (PhaseOne \div 100)) \div sr
        next == phase + incr
    IN  IF next >= PhaseOne THEN next - PhaseOne ELSE next

\* A detune factor x is the integer x * FactorOne.
FactorOne == 100000

\* 2^(detune_offset * detune_cents / 1200) = exp(y), y = ln 2 * offset * cents / 1200,
\* by its Taylor polynomial of degree 2 (|y| < 0.03 for the slots in use).
DetuneFactor(offset, cents) ==
    LET y == (offset * cents * 693) \div (12 * OffsetOne)
    IN  FactorOne + y + (y * y) \div (2 * FactorOne)

\* base_freq * detune_factor
DetunedFreq(freq, factor) == freq + (freq * (factor - FactorOne)) \div FactorOne

\* The frequency of the voice at index 0, the one whose sample the unison path
\* keeps as mono_sample: base_freq * 2^(detune_offset * detune_cents / 1200).
MonoFreq(bank, freq, cents) ==
    DetunedFreq(freq, DetuneFactor(bank.detune_offset[1], cents))

\* Faulty variant: the waveform is evaluated after the phase has advanced.
BankEvalPhaseAdvanced(bank, freq, sr, phase_offset) ==
    OscAdvance(bank.phase[1], freq, sr) + phase_offset

\* current_phase of the first oscillator voice: the stored phase plus
\* phase_offset * TAU, read before the phase is advanced.
BankEvalPhase(bank, freq, sr, phase_offset) == bank.phase[1] + phase_offset

\* sin(x) for an angle of np / PhaseOne of a turn, 0 <= np < PhaseOne, in LevelOne
\* units: the angle is folded into the first quarter turn and the sine taken by
\* its Taylor polynomial of degree 9 (Horner form), x in 1 / LevelOne radians.
SinTurn(np) ==
    LET half == PhaseOne \div 2
        r  == IF np < half THEN np ELSE np - half
        a  == IF 2 * r <= half THEN r ELSE half - r
        x  == (a * 62832 + PhaseOne \div 2) \div PhaseOne
        x2 == (x * x) \div LevelOne
        t4 == LevelOne - (x2 * LevelOne) \div (72 * LevelOne)
        t3 == LevelOne - (x2 * t4) \div (42 * LevelOne)
        t2 == LevelOne - (x2 * t3) \div (20 * LevelOne)
        t1 == LevelOne - (x2 * t2) \div (6 * LevelOne)
        y  == (x * t1 + LevelOne \div 2) \div LevelOne
    IN  IF np < half THEN y ELSE -y

\* UnisonOscillator::generate_waveform, in LevelOne units (PhaseOne is a multiple
\* of 2 * LevelOne).
GenerateWaveform(waveform, phase) ==
    LET np == phase % PhaseOne
    IN  CASE waveform = "Sine" -> SinTurn(np)
          [] waveform = "Square" ->
                IF 2 * np < PhaseOne THEN LevelOne ELSE -LevelOne
          [] waveform = "Triangle" ->
                IF 2 * np < PhaseOne
                THEN (4 * np) \div (PhaseOne \div LevelOne) - LevelOne
                ELSE 3 * LevelOne - (4 * np) \div (PhaseOne \div LevelOne)
          [] waveform = "Sawtooth" ->
                (2 * np) \div (PhaseOne \div LevelOne) - LevelOne

\* The sample UnisonOscillator::process returns on the single-voice path.
BankSample(bank, waveform, freq, sr, phase_offset, volume) ==
    (GenerateWaveform(waveform, BankEvalPhase(bank, freq, sr, phase_offset)) * volume)
        \div LevelOne

\* UnisonOscillator::process, the phases it leaves: the single-voice path
\* advances the first voice, the unison path the voices below num_voices.
BankProcess(bank, freq, cents, sr) ==
    IF bank.num_voices = 1
    THEN [ bank EXCEPT !.phase[1] = OscAdvance(@, freq, sr) ]
    ELSE [ bank EXCEPT !.phase =
             [ k \in 1..Len(bank.phase) |->
                 IF k <= bank.num_voices
                 THEN OscAdvance(bank.phase[k],
                                 DetunedFreq(freq, DetuneFactor(bank.detune_offset[k], cents)),
                                 sr)
                 ELSE bank.phase[k] ] ]

\* The voice is inactive once its envelope is no longer active after the step.
Deactivate(active, e) == IF ~EnvelopeIsActive(e) THEN FALSE ELSE active

\* The filter parameters at their defaults: mode, cutoff (centi-Hz) and
\* resonance (LevelOne units).
FilterModeParam == "LowPass"

FilterCutoffParam == 2000000

FilterResonanceParam == 0

\* set_num_voices and process of the three banks, the first statements of the
\* loop body.
RenderBanks(v, r, sr) ==
    [ v EXCEPT !.osc = [ b \in 1..NumBanks |->
                           BankProcess(
                               BankSetNumVoices(v.osc[b], AsUsize(r.unison_voices[b])),
                               EffectiveFreq(v.base_frequency, r.octave, b),
                               r.unison_detune[b], sr) ] ]

\* voice.filter.set_coefficients panics in its clamp when the filter's sample
\* rate is below 20 / 0.49 Hz.
RenderPanics(v) ==
    VoiceIsActive(v) /\ FilterCutoff(FilterCutoffParam, v.filter.sample_rate) = ClampPanic

\* voice.filter.set_coefficients(...) and then voice.filter.process(...)
RenderFilter(f) ==
    FilterProcess(FilterSetCoefficients(f, FilterModeParam, FilterCutoffParam,
                                        FilterResonanceParam))

\* The loop body for a sounding voice, r being what it reads for its banks and
\* e the envelope after its process.  When set_coefficients panics the banks
\* have advanced and nothing else of the voice is written.
RenderBody(v, r, e, sr) ==
    IF RenderPanics(v)
    THEN RenderBanks(v, r, sr)
    ELSE [ RenderBanks(v, r, sr)
               EXCEPT !.filter = RenderFilter(v.filter),
                      !.envelope = e,
                      !.active = Deactivate(v.active, e) ]

\* The body of "for voice in &mut self.voices" for one sample, with every
\* smoother at rest on its parameter p.
RenderVoice(v, p, sr) ==
    IF ~VoiceIsActive(v)
    THEN v
    ELSE RenderBody(v, p,
                    EnvelopeProcess(v.envelope,
                                    Max(p.attack, MinTime),
                                    Max(p.decay, MinTime),
                                    Max(0, Min(p.sustain, LevelOne)),
                                    Max(p.release, MinTime)),
                    sr)

\* 0.001 as f32
MinTime32 == F32OfTime(MinTime)

\* The same body for the values r that the smoothers hand over while they
\* ramp: the times are f32 values, the sustain and the detune are levels.
RenderVoice32(v, r, sr) ==
    IF ~VoiceIsActive(v)
    THEN v
    ELSE RenderBody(v, r,
                    EnvelopeProcess32(v.envelope,
                                      F32Max(r.attack, MinTime32),
                                      F32Max(r.decay, MinTime32),
                                      Max(0, Min(r.sustain, LevelOne)),
                                      F32Max(r.release, MinTime32)),
                    sr)

----------------------------------------------------------------------------
(* Voice pool: note events *)

Voices == 1..PoolSize

NoteOn(n, v) == [ type |-> "NoteOn", note |-> n, velocity |-> v ]

NoteOff(n) == [ type |-> "NoteOff", note |-> n, velocity |-> 0 ]

Choke == [ type |-> "Choke", note |-> 0, velocity |-> 0 ]

\* any other NoteEvent variant (the "_ => {}" arm)
OtherEvent == [ type |-> "Other", note |-> 0, velocity |-> 0 ]

\* Faulty variant: "all" for "any": a free voice is seen only in an empty pool.
HasFreeAll(vs) == \A i \in Voices : ~vs[i].active

\* self.voices.iter_mut().find(|v| !v.active)
HasFree(vs) == \E i \in Voices : ~vs[i].active

FirstFree(vs) ==
    CHOOSE i \in Voices : ~vs[i].active /\ \A j \in Voices : j < i => vs[j].active

\* Faulty variant: the last of the voices with the least samples_elapsed.
StealIndexLast(vs) ==
    CHOOSE i \in Voices :
        /\ \A j \in Voices :
              vs[i].envelope.samples_elapsed <= vs[j].envelope.samples_elapsed
        /\ \A j \in Voices :
              j > i => vs[j].envelope.samples_elapsed > vs[i].envelope.samples_elapsed

\* .enumerate().min_by_key(|(_, v)| v.envelope.samples_elapsed):
\* the first of the voices with the least samples_elapsed.
StealIndex(vs) ==
    CHOOSE i \in Voices :
        /\ \A j \in Voices :
              vs[i].envelope.samples_elapsed <= vs[j].envelope.samples_elapsed
        /\ \A j \in Voices :
              j < i => vs[j].envelope.samples_elapsed > vs[i].envelope.samples_elapsed

\* Faulty variant: every NoteOn steals.
NoteOnTargetSteal(vs) == StealIndex(vs)

NoteOnTarget(vs) == IF HasFree(vs) THEN FirstFree(vs) ELSE StealIndex(vs)

\* Faulty variant: the NoteOn arm without the test of the velocity.
PoolNoteOnAnyVelocity(vs, note, velocity) ==
    [ vs EXCEPT ![NoteOnTarget(vs)] = VoiceNoteOn(@, note, velocity) ]

\* The NoteOn arm
PoolNoteOn(vs, note, velocity) ==
    IF velocity > 0
    THEN [ vs EXCEPT ![NoteOnTarget(vs)] = VoiceNoteOn(@, note, velocity) ]
    ELSE vs

\* The guard of the NoteOff arm
NoteOffMatches(v, note) == v.note = note /\ v.active

\* The NoteOff arm
PoolNoteOff(vs, note) ==
    [ i \in Voices |-> IF NoteOffMatches(vs[i], note) THEN VoiceNoteOff(vs[i]) ELSE vs[i] ]

\* What the Choke arm does to one voice
ChokeVoice(v) == VoiceNoteOff(v)

\* The Choke arm
PoolChoke(vs) == [ i \in Voices |-> ChokeVoice(vs[i]) ]

ApplyEvent(vs, ev) ==
    CASE ev.type = "NoteOn"  -> PoolNoteOn(vs, ev.note, ev.velocity)
      [] ev.type = "NoteOff" -> PoolNoteOff(vs, ev.note)
      [] ev.type = "Choke"   -> PoolChoke(vs)
      [] OTHER               -> vs

\* What SineSynth::reset does to one voice
ResetVoice(v) ==
    [ v EXCEPT !.active = FALSE,
               !.osc = OscReset(v.osc),
               !.filter = FilterReset(v.filter) ]

----------------------------------------------------------------------------
(* MCP server: the shared PluginState and the three setter tools             *)
(* (src/src/mcp_server.rs).  Frequencies are in centi-Hz, times in 1/TimeDen *)
(* s, levels in 1/LevelOne; an Option is << >> for None and << v >> for      *)
(* Some(v).                                                                  *)

\* PluginState::default
PluginStateDefault ==
    [ osc1_waveform |-> "Sine", osc1_frequency |-> 44000, osc1_detune |-> 0,
      osc1_phase |-> 0, osc1_gain |-> LevelOne \div 2, osc1_octave |-> 0,
      osc1_unison_voices |-> 1, osc1_unison_detune |-> 0, osc1_unison_blend |-> 0,
      osc1_unison_volume |-> LevelOne,
      osc2_waveform |-> "Sawtooth", osc2_frequency |-> 88000, osc2_detune |-> 0,
      osc2_phase |-> 0, osc2_gain |-> LevelOne \div 4, osc2_octave |-> -1,
      osc2_unison_voices |-> 1, osc2_unison_detune |-> 0, osc2_unison_blend |-> 0,
      osc2_unison_volume |-> LevelOne,
      osc3_waveform |-> "Square", osc3_frequency |-> 22000, osc3_detune |-> 0,
      osc3_phase |-> 0, osc3_gain |-> LevelOne \div 8, osc3_octave |-> 1,
      osc3_unison_voices |-> 1, osc3_unison_detune |-> 0, osc3_unison_blend |-> 0,
      osc3_unison_volume |-> LevelOne,
      filter_mode |-> "LowPass", filter_cutoff |-> 2000000, filter_resonance |-> 0,
      filter_drive |-> LevelOne,
      envelope_attack |-> TimeDen \div 100, envelope_decay |-> TimeDen \div 2,
      envelope_sustain |-> (7 * LevelOne) \div 10, envelope_release |-> TimeDen ]

\* The fields the three arms of "match osc_num" write.
OscFields ==
    << [ waveform |-> "osc1_waveform", frequency |-> "osc1_frequency",
         detune |-> "osc1_detune", phase |-> "osc1_phase", gain |-> "osc1_gain",
         octave |-> "osc1_octave", unison_voices |-> "osc1_unison_voices",
         unison_detune |-> "osc1_unison_detune", unison_blend |-> "osc1_unison_blend",
         unison_volume |-> "osc1_unison_volume" ],
       [ waveform |-> "osc2_waveform", frequency |-> "osc2_frequency",
         detune |-> "osc2_detune", phase |-> "osc2_phase", gain |-> "osc2_gain",
         octave |-> "osc2_octave", unison_voices |-> "osc2_unison_voices",
         unison_detune |-> "osc2_unison_detune", unison_blend |-> "osc2_unison_blend",
         unison_volume |-> "osc2_unison_volume" ],
       [ waveform |-> "osc3_waveform", frequency |-> "osc3_frequency",
         detune |-> "osc3_detune", phase |-> "osc3_phase", gain |-> "osc3_gain",
         octave |-> "osc3_octave", unison_voices |-> "osc3_unison_voices",
         unison_detune |-> "osc3_unison_detune", unison_blend |-> "osc3_unison_blend",
         unison_volume |-> "osc3_unison_volume" ] >>

WaveformNames == { "Sine", "Square", "Triangle", "Sawtooth" }

FilterModeNames == { "LowPass", "HighPass", "BandPass", "Notch" }

\* Faulty variant: a clamp that forgets its lower bound.
ClampAbove(v, lo, hi) == Min(v, hi)

\* v.clamp(lo, hi)
Clamp(v, lo, hi) == Max(lo, Min(v, hi))

\* "if let Some(v) = option { field = v.clamp(lo, hi) }"
SetClamped(old, option, lo, hi) ==
    IF option = << >> THEN old ELSE Clamp(option[1], lo, hi)

\* The body of set_oscillator: [ ok, state ].
SetOscillator(state, r) ==
    IF r.oscillator < 1 \/ r.oscillator > 3
    THEN [ ok |-> FALSE, state |-> state ]
    ELSE IF r.waveform # << >> /\ r.waveform[1] \notin WaveformNames
    THEN [ ok |-> FALSE, state |-> state ]
    ELSE LET F == OscFields[r.oscillator]
         IN  [ ok |-> TRUE,
               state |->
                 [ state EXCEPT
                     ![F.waveform] = IF r.waveform = << >> THEN @ ELSE r.waveform[1],
                     ![F.frequency] = SetClamped(@, r.frequency, 2000, 2000000),
                     ![F.detune] = SetClamped(@, r.detune, -100, 100),
                     ![F.phase] = SetClamped(@, r.phase, 0, LevelOne),
                     ![F.gain] = SetClamped(@, r.gain, 0, LevelOne),
                     ![F.octave] = SetClamped(@, r.octave, -4, 4),
                     ![F.unison_voices] = SetClamped(@, r.unison_voices, 1, 8),
                     ![F.unison_detune] = SetClamped(@, r.unison_detune, 0, 50),
                     ![F.unison_blend] = SetClamped(@, r.unison_blend, 0, LevelOne),
                     ![F.unison_volume] = SetClamped(@, r.unison_volume, 0, LevelOne) ] ]

\* The body of set_filter: [ ok, state ].
SetFilter(state, r) ==
    IF r.mode # << >> /\ r.mode[1] \notin FilterModeNames
    THEN [ ok |-> FALSE, state |-> state ]
    ELSE [ ok |-> TRUE,
           state |->
             [ state EXCEPT
                 !.filter_mode = IF r.mode = << >> THEN @ ELSE r.mode[1],
                 !.filter_cutoff = SetClamped(@, r.cutoff, 2000, 2000000),
                 !.filter_resonance = SetClamped(@, r.resonance, 0, LevelOne),
                 !.filter_drive = SetClamped(@, r.drive, LevelOne, 5 * LevelOne) ] ]

\* The body of set_envelope: [ ok, state ].
SetEnvelope(state, r) ==
    [ ok |-> TRUE,
      state |->
        [ state EXCEPT
            !.envelope_attack = SetClamped(@, r.attack, MinTime, 5 * TimeDen),
            !.envelope_decay = SetClamped(@, r.decay, MinTime, 5 * TimeDen),
            !.envelope_sustain = SetClamped(@, r.sustain, 0, LevelOne),
            !.envelope_release = SetClamped(@, r.release, MinTime, 10 * TimeDen) ] ]

\* The tool the router dispatches a call to.
CallTool(state, r) ==
    CASE r.tool = "set_oscillator" -> SetOscillator(state, r)
      [] r.tool = "set_filter" -> SetFilter(state, r)
      [] r.tool = "set_envelope" -> SetEnvelope(state, r)

\* set_oscillator tests the oscillator number before it takes the lock.
RejectedBeforeLock(r) ==
    r.tool = "set_oscillator" /\ (r.oscillator < 1 \/ r.oscillator > 3)

Clients == 1..2

NoRequest == [ tool |-> "none" ]

NoMcpLast == [ client |-> 0, request |-> NoRequest, ok |-> TRUE, before |-> PluginStateDefault ]

NoMcpRead == [ reads |-> 0, attack |-> 0, decay |-> 0, sustain |-> 0, release |-> 0 ]

----------------------------------------------------------------------------
(* Parameter smoothers (SmoothingStyle::Linear), as the nih-plug library      *)
(* runs them for the parameters declared with_smoother.  The time parameters *)
(* are followed as f32 values; the sustain level and the detune of bank 1 as *)
(* levels on the straight line from where the ramp began to the target.      *)

\* attack, decay, sustain and release ramp over 10 ms, unison_detune1 over
\* 50 ms.
AdsrSmoothingMs == 10

UnisonSmoothingMs == 50

\* The steps of a ramp: (sample_rate * ms / 1000.0).round() as u32
NumSteps(sr, ms) == (sr * ms + 500) \div 1000

\* A smoother that has never ramped: current on the value, no step left.
TimeSmootherNew(t) == [ left |-> 0, current |-> F32OfTime(t), step |-> F32Zero ]

\* reset(value): current on the value, no step left.
TimeSmootherReset(s, t) == [ s EXCEPT !.left = 0, !.current = F32OfTime(t) ]

\* set_target: the ramp restarts from current with
\* step_size = (target - current) / (num_steps as f32); with no step the
\* smoother is on its target at once and current is left where it was.
TimeSmootherSetTarget(s, t, sr) ==
    LET n == NumSteps(sr, AdsrSmoothingMs)
    IN  [ left |-> n,
          current |-> s.current,
          step |-> IF n > 0 THEN F32DivInt(F32Sub(F32OfTime(t), s.current), n)
                            ELSE F32Zero ]

\* next(): one step towards the target t, which the last step lands on.
TimeSmootherNext(s, t) ==
    IF s.left > 0
    THEN [ s EXCEPT !.left = s.left - 1,
                    !.current = IF s.left = 1 THEN F32OfTime(t)
                                              ELSE F32Add(s.current, s.step) ]
    ELSE s

\* The smoother after k calls of next().
RECURSIVE TimeSmootherAfter(_, _, _)
TimeSmootherAfter(s, t, k) ==
    IF k = 0 \/ s.left = 0 THEN s ELSE TimeSmootherAfter(TimeSmootherNext(s, t), t, k - 1)

\* The value the k-th call of next() returns, k >= 1: the new current while
\* the ramp runs, the target after it.
TimeSmootherRead(s, t, k) ==
    LET before == TimeSmootherAfter(s, t, k - 1)
    IN  IF before.left > 0 THEN TimeSmootherNext(before, t).current ELSE F32OfTime(t)

LevelSmootherNew(x) == [ left |-> 0, from |-> x, steps |-> 0 ]

\* The value a level smoother is on, given its target.
LevelSmootherCurrent(s, x) ==
    IF s.left = 0 THEN x
    ELSE s.from + ((x - s.from) * (s.steps - s.left)) \div s.steps

\* set_target to a new value, old being the target before.
LevelSmootherSetTarget(s, old, ms, sr) ==
    [ left |-> NumSteps(sr, ms), from |-> LevelSmootherCurrent(s, old),
      steps |-> NumSteps(sr, ms) ]

\* The smoother after k calls of next().
LevelSmootherAfter(s, k) == [ s EXCEPT !.left = IF s.left > k THEN s.left - k ELSE 0 ]

\* The value the k-th call of next() returns.
LevelSmootherRead(s, x, k) == LevelSmootherCurrent(LevelSmootherAfter(s, k), x)

\* The smoothers as the parameters p are constructed.
SmoothersNew(p) ==
    [ attack |-> TimeSmootherNew(p.attack), decay |-> TimeSmootherNew(p.decay),
      sustain |-> LevelSmootherNew(p.sustain), release |-> TimeSmootherNew(p.release),
      unison_detune1 |-> LevelSmootherNew(p.unison_detune[1]) ]

\* Every smoother reset to the value of its parameter.
SmoothersReset(sm, p) ==
    [ attack |-> TimeSmootherReset(sm.attack, p.attack),
      decay |-> TimeSmootherReset(sm.decay, p.decay),
      sustain |-> LevelSmootherNew(p.sustain),
      release |-> TimeSmootherReset(sm.release, p.release),
      unison_detune1 |-> LevelSmootherNew(p.unison_detune[1]) ]

\* The parameters go from old to p while the plugin runs at the rate sr: the
\* smoother of every parameter that changes gets its new target.
SmoothersSetTarget(sm, old, p, sr) ==
    [ attack |-> IF p.attack = old.attack THEN sm.attack
                 ELSE TimeSmootherSetTarget(sm.attack, p.attack, sr),
      decay |-> IF p.decay = old.decay THEN sm.decay
                ELSE TimeSmootherSetTarget(sm.decay, p.decay, sr),
      sustain |-> IF p.sustain = old.sustain THEN sm.sustain
                  ELSE LevelSmootherSetTarget(sm.sustain, old.sustain,
                                              AdsrSmoothingMs, sr),
      release |-> IF p.release = old.release THEN sm.release
                  ELSE TimeSmootherSetTarget(sm.release, p.release, sr),
      unison_detune1 |->
          IF p.unison_detune[1] = old.unison_detune[1] THEN sm.unison_detune1
          ELSE LevelSmootherSetTarget(sm.unison_detune1, old.unison_detune[1],
                                      UnisonSmoothingMs, sr) ]

\* The smoothers after k sounding voices of one sample have read them.
SmoothersAfter(sm, p, k) ==
    [ attack |-> TimeSmootherAfter(sm.attack, p.attack, k),
      decay |-> TimeSmootherAfter(sm.decay, p.decay, k),
      sustain |-> LevelSmootherAfter(sm.sustain, k),
      release |-> TimeSmootherAfter(sm.release, p.release, k),
      unison_detune1 |-> LevelSmootherAfter(sm.unison_detune1, k) ]

\* What the k-th sounding voice of a sample reads: the smoothed values, and
\* value() of the parameters that have no smoother.
SmoothersRead(sm, p, k) ==
    [ attack |-> TimeSmootherRead(sm.attack, p.attack, k),
      decay |-> TimeSmootherRead(sm.decay, p.decay, k),
      sustain |-> LevelSmootherRead(sm.sustain, p.sustain, k),
      release |-> TimeSmootherRead(sm.release, p.release, k),
      octave |-> p.octave,
      unison_voices |-> p.unison_voices,
      unison_detune |-> << LevelSmootherRead(sm.unison_detune1, p.unison_detune[1], k),
                           p.unison_detune[2], p.unison_detune[3] >> ]

----------------------------------------------------------------------------
(* Inputs and bounds *)

MaxOps == 3

ChordLen == 8

MaxEnvCalls == 6

Notes == { 60, 69 }

Velocities == { 0, LevelOne }

BufferLens == { 2 }

\* 40 Hz is below 20 / 0.49 Hz, where rendering a sounding voice panics.
SampleRates == { 40, 1000 }

DefaultParams ==
    [ attack |-> TimeDen \div 100, decay |-> TimeDen \div 2,
      sustain |-> (7 * LevelOne) \div 10, release |-> TimeDen,
      octave |-> OctaveParam,
      unison_voices |-> << 1, 1, 1 >>, unison_detune |-> << 0, 0, 0 >> ]

\* Short times with one voice per bank, and one setting that widens bank 1 to
\* three detuned voices an octave up, with another attack and sustain.
ParamSpace ==
    [ attack : { 2, 4 }, decay : { 2 }, sustain : { LevelOne \div 2 }, release : { 2, 4 },
      octave : { OctaveParam },
      unison_voices : { << 1, 1, 1 >> }, unison_detune : { << 0, 0, 0 >> } ]
        \cup { [ attack |-> 8, decay |-> 2, sustain |-> LevelOne \div 5, release |-> 4,
                 octave |-> << 1, -1, 1 >>,
                 unison_voices |-> << 3, 1, 1 >>, unison_detune |-> << 20, 0, 0 >> ] }

Events ==
    { NoteOn(n, v) : n \in Notes, v \in Velocities }
        \cup { NoteOff(n) : n \in Notes } \cup { Choke, OtherEvent }

Repeat(e, k) == [ i \in 1..k |-> e ]

PairEvents == { NoteOn(60, LevelOne), NoteOff(60), Choke }

\* The event lists a block can carry: none, one event, two events, a chord.
Scripts ==
    { << >> } \cup { << e >> : e \in Events }
        \cup { s \in { << a, b >> : a \in PairEvents, b \in PairEvents } : s[1] # s[2] }
        \cup { Repeat(NoteOn(n, LevelOne), ChordLen) : n \in Notes }

----------------------------------------------------------------------------
(* The plugin: host callbacks and the steps of SineSynth::process *)

NoLast ==
    [ op |-> "new", note |-> 0, velocity |-> 0, target |-> 0,
      stolen |-> FALSE, rendered |-> {}, deactivated |-> {}, nexts |-> 0 ]

\* The number of times one sample of the render loop calls smoothed.next() on
\* a parameter: the calls sit in the body of the voice loop, after the
\* "continue" of the voices that are not sounding.
SmootherCalls(vs) == Cardinality({ i \in Voices : VoiceIsActive(vs[i]) })

\* The voices whose active flag an operation cleared.
Deactivated(vs, vs2) == { i \in Voices : vs[i].active /\ ~vs2[i].active }

AllInactive(vs) == \A i \in Voices : ~vs[i].active

\* The run of NoteOns since the pool was last all inactive.
RunAfter(vs2, ev, target) ==
    IF AllInactive(vs2) THEN << << >>, TRUE >>
    ELSE IF ev.type = "NoteOn" /\ ev.velocity > 0
         THEN IF runOk /\ Len(run) <= PoolSize
              THEN << Append(run, [ target |-> target, note |-> ev.note ]), TRUE >>
              ELSE << << >>, FALSE >>
    ELSE IF ev.type \in { "NoteOff", "Choke" } THEN << << >>, FALSE >>
    ELSE << run, runOk >>

\* The parts that other specifications drive on their own, as constructed.
NoUnisonLast ==
    [ op |-> "new", requested |-> 0, single |-> TRUE, eval |-> 0, sample |-> 0 ]

\* Bank 1 at its default parameters, at the pitch of a fresh voice.
DefaultUnisonIn ==
    [ waveform |-> "Sine", freq |-> 44000, detune_cents |-> 0, phase_offset |-> 0,
      volume |-> LevelOne, sample_rate |-> DefaultSampleRate ]

UnisonAtRest ==
    /\ unison = BankNew(BankCapacity)
    /\ unisonIn = DefaultUnisonIn
    /\ unisonCalls = 0
    /\ unisonLast = NoUnisonLast

NoVcLast ==
    [ op |-> "new", note |-> 0, velocity |-> 0, before |-> VoiceNew(DefaultSampleRate) ]

VcAtRest ==
    /\ vc = VoiceNew(DefaultSampleRate)
    /\ vcLast = NoVcLast
    /\ vcOps = 0

HoldAtRest ==
    /\ hold = [ EnvelopeNew(DefaultSampleRate) EXCEPT !.samples_elapsed = << 0, 0 >> ]
    /\ holdStatus = "running"

\* The filter at its default parameters: LowPass, cutoff 20 kHz, resonance 0.
DefaultFltIn == [ mode |-> "LowPass", cutoff |-> 2000000, resonance |-> 0 ]

NoFltLast == [ op |-> "new", q |-> 0, alpha |-> 0 ]

FltAtRest ==
    /\ flt = FilterNew(DefaultSampleRate)
    /\ fltIn = DefaultFltIn
    /\ fltLast = NoFltLast

RelAtRest == rel = 0

McpAtRest ==
    /\ mcp = PluginStateDefault
    /\ mcpLock = 0
    /\ mcpPc = [ c \in Clients |-> "idle" ]
    /\ mcpReq = [ c \in Clients |-> NoRequest ]
    /\ mcpLast = NoMcpLast
    /\ mcpCalls = 0
    /\ mcpRead = NoMcpRead

EnvAtRest ==
    /\ env = EnvelopeNew(DefaultSampleRate)
    /\ envParams = DefaultParams
    /\ envCalls = 0
    /\ envSince = "new"
    /\ envFrom = "Idle"

PoolAtRest ==
    /\ voices = [ i \in Voices |-> VoiceNew(DefaultSampleRate) ]
    /\ sample_rate = DefaultSampleRate
    /\ params = DefaultParams
    /\ smoothers = SmoothersNew(DefaultParams)
    /\ pc = "new"
    /\ queue = << >>
    /\ frames = 0
    /\ delivered = << >>
    /\ applied = << >>
    /\ last = NoLast
    /\ run = << >>
    /\ runOk = TRUE
    /\ ops = 0

Init ==
    /\ voices = [ i \in Voices |-> VoiceNew(DefaultSampleRate) ]
    /\ sample_rate = DefaultSampleRate
    /\ params = DefaultParams
    /\ smoothers = SmoothersNew(DefaultParams)
    /\ pc = "new"
    /\ queue = << >>
    /\ frames = 0
    /\ delivered = << >>
    /\ applied = << >>
    /\ last = NoLast
    /\ run = << >>
    /\ runOk = TRUE
    /\ ops = 0
    /\ env = EnvelopeNew(DefaultSampleRate)
    /\ envParams = DefaultParams
    /\ envCalls = 0
    /\ envSince = "new"
    /\ envFrom = "Idle"
    /\ UnisonAtRest
    /\ VcAtRest
    /\ HoldAtRest
    /\ FltAtRest
    /\ RelAtRest
    /\ McpAtRest

\* Plugin::initialize: the host's first call, and again when it reconfigures.
HostInitialize(sr) ==
    /\ \/ pc = "new" /\ ops' = ops
       \/ pc = "host" /\ ops < MaxOps /\ ops' = ops + 1
    /\ pc' = "host"
    /\ sample_rate' = sr
    /\ voices' = [ i \in Voices |-> VoiceSetSampleRate(voices[i], sr) ]
    /\ last' = [ NoLast EXCEPT !.op = "Initialize" ]
    /\ smoothers' = SmoothersReset(smoothers, params)
    /\ UNCHANGED << params, queue, frames, delivered, applied, run, runOk >>
    /\ UNCHANGED << envVars, unisonVars, vcVars, holdVars, fltVars, relVars, mcpVars >>

\* Plugin::reset
HostReset ==
    /\ pc = "host"
    /\ ops < MaxOps
    /\ ops' = ops + 1
    /\ voices' = [ i \in Voices |-> ResetVoice(voices[i]) ]
    /\ last' = [ NoLast EXCEPT !.op = "Reset",
                               !.deactivated = Deactivated(voices, voices') ]
    /\ run' = << >>
    /\ runOk' = TRUE
    /\ UNCHANGED << sample_rate, params, smoothers, pc, queue, frames, delivered, applied >>
    /\ UNCHANGED << envVars, unisonVars, vcVars, holdVars, fltVars, relVars, mcpVars >>

\* The host or the editor sets parameters, before the plugin is initialised
\* or between two calls of process.  Before initialize the smoothers just take
\* the values (initialize resets them in any case); afterwards the smoother of
\* each changed parameter starts a ramp from where it is, and the parameters
\* without a smoother are read at their new value from the next sample on.
ParamChange(p) ==
    /\ pc \in { "new", "host" }
    /\ ops < MaxOps
    /\ p # params
    /\ ops' = ops + 1
    /\ params' = p
    /\ smoothers' = IF pc = "new" THEN SmoothersReset(smoothers, p)
                    ELSE SmoothersSetTarget(smoothers, params, p, sample_rate)
    /\ last' = [ NoLast EXCEPT !.op = "ParamChange" ]
    /\ UNCHANGED << voices, sample_rate, pc, queue, frames, delivered, applied,
                    run, runOk >>
    /\ UNCHANGED << envVars, unisonVars, vcVars, holdVars, fltVars, relVars, mcpVars >>

\* The host calls process with the block's events and a buffer of n samples.
BeginProcess(script, n) ==
    /\ pc = "host"
    /\ ops < MaxOps
    /\ ops' = ops + 1
    /\ pc' = "events"
    /\ queue' = script
    /\ frames' = n
    /\ delivered' = script
    /\ applied' = << >>
    /\ last' = [ NoLast EXCEPT !.op = "BeginProcess" ]
    /\ UNCHANGED << voices, sample_rate, params, smoothers, run, runOk >>
    /\ UNCHANGED << envVars, unisonVars, vcVars, holdVars, fltVars, relVars, mcpVars >>

\* Faulty variant: the loop stops with one event still pending.
DrainedEarly(q) == Len(q) <= 1

\* "while let Some(event) = context.next_event()" is over.
Drained(q) == q = << >>

\* context.next_event(): the oldest event not yet taken.
NextOf(q) == Head(q)

\* One turn of the event loop.
NextEvent ==
    /\ pc = "events"
    /\ ~Drained(queue)
    /\ LET ev  == NextOf(queue)
           vs2 == ApplyEvent(voices, ev)
           on  == ev.type = "NoteOn" /\ ev.velocity > 0
           tgt == IF on THEN NoteOnTarget(voices) ELSE 0
           r   == RunAfter(vs2, ev, tgt)
       IN  /\ voices' = vs2
           /\ queue' = Tail(queue)
           /\ applied' = Append(applied, ev)
           /\ last' = [ op |-> ev.type, note |-> ev.note, velocity |-> ev.velocity,
                        target |-> tgt, stolen |-> (on /\ ~HasFree(voices)),
                        rendered |-> {}, deactivated |-> Deactivated(voices, vs2),
                        nexts |-> 0 ]
           /\ run' = r[1]
           /\ runOk' = r[2]
    /\ UNCHANGED << sample_rate, params, smoothers, pc, frames, delivered, ops >>
    /\ UNCHANGED << envVars, unisonVars, vcVars, holdVars, fltVars, relVars, mcpVars >>

\* next_event() returned None: the render loop starts.
EventsDone ==
    /\ pc = "events"
    /\ Drained(queue)
    /\ pc' = "render"
    /\ UNCHANGED << voices, sample_rate, params, smoothers, queue, frames, delivered, applied,
                    last, run, runOk, ops >>
    /\ UNCHANGED << envVars, unisonVars, vcVars, holdVars, fltVars, relVars, mcpVars >>

\* The sounding voices in the order of the loop: the rank of voice i among them.
SoundingRank(vs, i) == Cardinality({ j \in 1..i : VoiceIsActive(vs[j]) })

\* No smoother is ramping: every next() returns the value of its parameter.
SmoothersSettled(sm) ==
    /\ sm.attack.left = 0 /\ sm.decay.left = 0 /\ sm.release.left = 0
    /\ sm.sustain.left = 0 /\ sm.unison_detune1.left = 0

\* The loop over the voices for one sample: the k-th sounding voice reads the
\* smoothers after k calls of next().
RenderVoices(vs, sm, p, sr) ==
    IF SmoothersSettled(sm)
    THEN [ i \in Voices |-> RenderVoice(vs[i], p, sr) ]
    ELSE [ i \in Voices |->
             RenderVoice32(vs[i], SmoothersRead(sm, p, SoundingRank(vs, i)), sr) ]

\* The loop when the first sounding voice panics in set_coefficients: its banks
\* have advanced, with one read of the detune of bank 1, and nothing else ran.
RenderVoicesPanic(vs, sm, p, sr) ==
    [ i \in Voices |->
        IF SoundingRank(vs, i) = 1 /\ VoiceIsActive(vs[i])
        THEN RenderVoice32(vs[i], SmoothersRead(sm, p, 1), sr)
        ELSE vs[i] ]

\* One iteration of "for ... in buffer.iter_samples()".  A panic leaves the
\* callback for good: no step follows it.
RenderSample ==
    /\ pc = "render"
    /\ frames > 0
    /\ IF \E i \in Voices : RenderPanics(voices[i])
       THEN /\ voices' = RenderVoicesPanic(voices, smoothers, params, sample_rate)
            /\ smoothers' = [ smoothers EXCEPT !.unison_detune1 =
                                                  LevelSmootherAfter(@, 1) ]
            /\ pc' = "panicked"
            /\ last' = [ NoLast EXCEPT !.op = "Panicked" ]
            /\ UNCHANGED << frames, run, runOk >>
       ELSE /\ LET vs2 == RenderVoices(voices, smoothers, params, sample_rate)
                   r   == RunAfter(vs2, OtherEvent, 0)
               IN  /\ voices' = vs2
                   /\ run' = r[1]
                   /\ runOk' = r[2]
            /\ smoothers' = SmoothersAfter(smoothers, params, SmootherCalls(voices))
            /\ frames' = frames - 1
            /\ last' = [ NoLast EXCEPT
                           !.op = "Render",
                           !.rendered = { i \in Voices : VoiceIsActive(voices[i]) },
                           !.nexts = SmootherCalls(voices),
                           !.deactivated = Deactivated(voices, voices') ]
            /\ UNCHANGED pc
    /\ UNCHANGED << sample_rate, params, queue, delivered, applied, ops >>
    /\ UNCHANGED << envVars, unisonVars, vcVars, holdVars, fltVars, relVars, mcpVars >>

\* The buffer is full: process returns ProcessStatus::Normal.
ProcessReturn ==
    /\ pc = "render"
    /\ frames = 0
    /\ pc' = "host"
    /\ delivered' = << >>
    /\ applied' = << >>
    /\ last' = [ NoLast EXCEPT !.op = "Return" ]
    /\ UNCHANGED << voices, sample_rate, params, smoothers, queue, frames, run, runOk, ops >>
    /\ UNCHANGED << envVars, unisonVars, vcVars, holdVars, fltVars, relVars, mcpVars >>

Next ==
    \/ \E sr \in SampleRates : HostInitialize(sr)
    \/ HostReset
    \/ \E p \in ParamSpace : ParamChange(p)
    \/ \E script \in Scripts, n \in BufferLens : BeginProcess(script, n)
    \/ NextEvent
    \/ EventsDone
    \/ RenderSample
    \/ ProcessReturn

Spec == Init /\ [][Next]_vars

----------------------------------------------------------------------------
(* A single Envelope driven with constant parameters *)

EnvSampleRates == { 1000, 3000 }

EnvParamSpace ==
    [ attack : 1..5, decay : { 2, 4 }, sustain : { 0, LevelOne \div 2, LevelOne },
      release : 1..5 ]

\* Times of 0.009 s: at 3000 Hz the product is 27 in exact arithmetic and
\* 26.999998 in f32.
EnvLongParams ==
    [ attack |-> 18, decay |-> 2, sustain |-> LevelOne \div 2, release |-> 18 ]

\* The parameters and the sample rate of the single envelope.
EnvInputs ==
    { << p, 1000 >> : p \in EnvParamSpace } \cup { << EnvLongParams, 3000 >> }

\* The process calls the single envelope is followed for after a note_on or a
\* note_off: enough to reach Sustain and to pass the end of its release.
EnvCallCap ==
    Max(MaxEnvCalls,
        Max(StageSamples(envParams.attack, env.sample_rate)
                + StageSamples(envParams.decay, env.sample_rate),
            StageSamples(envParams.release, env.sample_rate)) + 2)

InitEnvelope ==
    /\ voices = [ i \in Voices |-> VoiceNew(DefaultSampleRate) ]
    /\ sample_rate = DefaultSampleRate
    /\ params = DefaultParams
    /\ smoothers = SmoothersNew(DefaultParams)
    /\ pc = "new"
    /\ queue = << >>
    /\ frames = 0
    /\ delivered = << >>
    /\ applied = << >>
    /\ last = NoLast
    /\ run = << >>
    /\ runOk = TRUE
    /\ ops = 0
    /\ \E in \in EnvInputs :
          /\ in[2] \in EnvSampleRates
          /\ env = EnvelopeNew(in[2])
          /\ envParams = in[1]
    /\ envCalls = 0
    /\ envSince = "new"
    /\ envFrom = "Idle"
    /\ UnisonAtRest
    /\ VcAtRest
    /\ HoldAtRest
    /\ FltAtRest
    /\ RelAtRest
    /\ McpAtRest

\* The envelope with the long stages is followed through uninterrupted passes
\* only: note_on from Idle, note_off from Sustain.
EnvUninterrupted == envParams = EnvLongParams

EnvNoteOn ==
    /\ EnvUninterrupted => env.stage = "Idle"
    /\ env' = EnvelopeNoteOn(env)
    /\ envCalls' = 0
    /\ envSince' = "note_on"
    /\ envFrom' = env.stage
    /\ UNCHANGED envParams
    /\ UNCHANGED << poolVars, unisonVars, vcVars, holdVars, fltVars, relVars, mcpVars >>

EnvNoteOff ==
    /\ EnvUninterrupted => env.stage = "Sustain"
    /\ env' = EnvelopeNoteOff(env)
    /\ envCalls' = 0
    /\ envSince' = "note_off"
    /\ envFrom' = env.stage
    /\ UNCHANGED envParams
    /\ UNCHANGED << poolVars, unisonVars, vcVars, holdVars, fltVars, relVars, mcpVars >>

EnvProcessCall ==
    /\ envCalls < EnvCallCap
    /\ env.samples_elapsed < EnvCallCap
    /\ env' = EnvelopeProcess(env, envParams.attack, envParams.decay,
                              envParams.sustain, envParams.release)
    /\ envCalls' = envCalls + 1
    /\ UNCHANGED << envParams, envSince, envFrom >>
    /\ UNCHANGED << poolVars, unisonVars, vcVars, holdVars, fltVars, relVars, mcpVars >>

NextEnvelope == EnvNoteOn \/ EnvNoteOff \/ EnvProcessCall

SpecEnvelope == InitEnvelope /\ [][NextEnvelope]_vars

----------------------------------------------------------------------------
(* A single UnisonOscillator driven with constant arguments *)

MaxUnisonCalls == 3

UnisonSampleRates == { 1000 }

\* Counts handed to set_num_voices: in range, 0, above the capacity, and a
\* negative parameter value after the cast.
VoiceRequests == { 0, 1, 2, 3, BankCapacity + 1, AsUsize(-1) }

\* Effective frequencies of note 69 under in-range octave and frequency
\* parameters; the highest lies above the sample rate.
UnisonFreqs ==
    { EffectiveFreqOf(BaseFrequency(69), o, f) : o \in { -1, 1 }, f \in { 44000, 88000 } }

UnisonInSpace ==
    [ waveform : { "Sine", "Square", "Triangle", "Sawtooth" },
      freq : UnisonFreqs,
      detune_cents : { 0, 50 },
      phase_offset : { 0, PhaseOne \div 4 },
      volume : { LevelOne \div 2 },
      sample_rate : UnisonSampleRates ]

InitUnison ==
    /\ PoolAtRest
    /\ EnvAtRest
    /\ VcAtRest
    /\ HoldAtRest
    /\ FltAtRest
    /\ RelAtRest
    /\ McpAtRest
    /\ unison = BankNew(BankCapacity)
    /\ unisonIn \in UnisonInSpace
    /\ unisonCalls = 0
    /\ unisonLast = NoUnisonLast

UnisonSetNumVoices(n) ==
    /\ unison' = BankSetNumVoices(unison, n)
    /\ unisonLast' = [ unisonLast EXCEPT !.op = "set_num_voices", !.requested = n ]
    /\ UNCHANGED << unisonIn, unisonCalls >>
    /\ UNCHANGED << poolVars, envVars, vcVars, holdVars, fltVars, relVars, mcpVars >>

UnisonProcess ==
    /\ unisonCalls < MaxUnisonCalls
    /\ unison' = BankProcess(unison, unisonIn.freq, unisonIn.detune_cents,
                             unisonIn.sample_rate)
    /\ unisonCalls' = unisonCalls + 1
    /\ unisonLast' =
          [ unisonLast EXCEPT
              !.op = "process",
              !.single = unisonLast.single /\ unison.num_voices = 1,
              !.eval = BankEvalPhase(unison, unisonIn.freq, unisonIn.sample_rate,
                                     unisonIn.phase_offset),
              !.sample = BankSample(unison, unisonIn.waveform, unisonIn.freq,
                                    unisonIn.sample_rate, unisonIn.phase_offset,
                                    unisonIn.volume) ]
    /\ UNCHANGED unisonIn
    /\ UNCHANGED << poolVars, envVars, vcVars, holdVars, fltVars, relVars, mcpVars >>

UnisonReset ==
    /\ unison' = BankReset(unison)
    /\ unisonCalls' = 0
    /\ unisonLast' = [ unisonLast EXCEPT !.op = "reset", !.single = TRUE ]
    /\ UNCHANGED unisonIn
    /\ UNCHANGED << poolVars, envVars, vcVars, holdVars, fltVars, relVars, mcpVars >>

NextUnison ==
    \/ \E n \in VoiceRequests : UnisonSetNumVoices(n)
    \/ UnisonProcess
    \/ UnisonReset

SpecUnison == InitUnison /\ [][NextUnison]_vars

----------------------------------------------------------------------------
(* A single Voice driven on its own *)

MaxVoiceOps == 5

\* 40 Hz is below 20 / 0.49 Hz, where rendering a sounding voice panics.
VoiceSampleRates == { 40, 1000 }

VoiceNotes == { 60, 69, 81 }

VoiceVelocities == { LevelOne \div 2, LevelOne }

VoiceParamSpace ==
    [ attack : { 2 }, decay : { 2 }, sustain : { LevelOne \div 2 }, release : { 4 },
      octave : { OctaveParam },
      unison_voices : { << 1, 1, 1 >>, << 3, 2, 8 >> },
      unison_detune : { << 50, 0, 25 >> } ]

InitVoice ==
    /\ PoolAtRest
    /\ EnvAtRest
    /\ UnisonAtRest
    /\ HoldAtRest
    /\ FltAtRest
    /\ RelAtRest
    /\ McpAtRest
    /\ VcAtRest

\* Voice::note_on
VcNoteOn(note, velocity) ==
    /\ vcLast.op # "panicked"
    /\ vcOps < MaxVoiceOps
    /\ vcOps' = vcOps + 1
    /\ vc' = VoiceNoteOn(vc, note, velocity)
    /\ vcLast' = [ op |-> "note_on", note |-> note, velocity |-> velocity, before |-> vc ]
    /\ UNCHANGED << poolVars, envVars, unisonVars, holdVars, fltVars, relVars, mcpVars >>

\* Voice::note_off
VcNoteOff ==
    /\ vcLast.op # "panicked"
    /\ vcOps < MaxVoiceOps
    /\ vcOps' = vcOps + 1
    /\ vc' = VoiceNoteOff(vc)
    /\ vcLast' = [ op |-> "note_off", note |-> 0, velocity |-> 0, before |-> vc ]
    /\ UNCHANGED << poolVars, envVars, unisonVars, holdVars, fltVars, relVars, mcpVars >>

\* One sample of the render loop for this voice.  A panic in set_coefficients
\* ends the run.
VcRender(p) ==
    /\ vcLast.op # "panicked"
    /\ vcOps < MaxVoiceOps
    /\ vcOps' = vcOps + 1
    /\ vc' = RenderVoice(vc, p, vc.envelope.sample_rate)
    /\ vcLast' = [ op |-> IF RenderPanics(vc) THEN "panicked" ELSE "render",
                    note |-> 0, velocity |-> 0, before |-> vc ]
    /\ UNCHANGED << poolVars, envVars, unisonVars, holdVars, fltVars, relVars, mcpVars >>

\* What SineSynth::reset does to this voice.
VcReset ==
    /\ vcLast.op # "panicked"
    /\ vcOps < MaxVoiceOps
    /\ vcOps' = vcOps + 1
    /\ vc' = ResetVoice(vc)
    /\ vcLast' = [ op |-> "reset", note |-> 0, velocity |-> 0, before |-> vc ]
    /\ UNCHANGED << poolVars, envVars, unisonVars, holdVars, fltVars, relVars, mcpVars >>

\* Voice::set_sample_rate
VcSetSampleRate(sr) ==
    /\ vcLast.op # "panicked"
    /\ vcOps < MaxVoiceOps
    /\ vcOps' = vcOps + 1
    /\ vc' = VoiceSetSampleRate(vc, sr)
    /\ vcLast' = [ op |-> "set_sample_rate", note |-> 0, velocity |-> 0, before |-> vc ]
    /\ UNCHANGED << poolVars, envVars, unisonVars, holdVars, fltVars, relVars, mcpVars >>

NextVoice ==
    \/ \E note \in VoiceNotes, velocity \in VoiceVelocities : VcNoteOn(note, velocity)
    \/ VcNoteOff
    \/ \E p \in VoiceParamSpace : VcRender(p)
    \/ VcReset
    \/ \E sr \in VoiceSampleRates : VcSetSampleRate(sr)

SpecVoice == InitVoice /\ [][NextVoice]_vars

----------------------------------------------------------------------------
(* An envelope near the end of the range of its u32 counter samples_elapsed *)

\* samples_elapsed is a u32; this envelope keeps it as << high, low >> limbs of
\* 16 bits, value = high * LimbBase + low.
LimbBase == 65536

MaxHoldSingles == 3

HoldSampleRates == { 1000 }

\* The constant parameters the envelope is processed with: stages of 1, 1 and 2
\* samples at 1000 Hz.
HoldParams ==
    [ attack |-> 2, decay |-> 2, sustain |-> LevelOne \div 2, release |-> 4 ]

\* Envelope::new, the counter as limbs.
HoldNew(sr) == [ EnvelopeNew(sr) EXCEPT !.samples_elapsed = << 0, 0 >> ]

\* The envelope that has been in Sustain for c process calls since the call
\* that entered it, with no note event in between.
Held(sr, c) ==
    [ HoldNew(sr) EXCEPT !.stage = "Sustain",
                         !.current_level = HoldParams.sustain,
                         !.samples_elapsed = c ]

\* Counters a few calls below a carry of the low limb: into the high limb, and
\* out of the 32 bits.
HeldCounters ==
    { << 0, LimbBase - MaxHoldSingles >>, << LimbBase - 1, LimbBase - MaxHoldSingles >> }

\* The counter as the match of Envelope::process compares it with a stage
\* length: its value, or UsizeTop when it is above every stage length.
CounterView(c) == IF c[1] < LimbBase \div 2 THEN c[1] * LimbBase + c[2] ELSE UsizeTop

\* The counter plus one, within the 32 bits.
LimbSucc(c) == IF c[2] + 1 < LimbBase THEN << c[1], c[2] + 1 >> ELSE << c[1] + 1, 0 >>

\* "self.samples_elapsed += 1" passes u32::MAX.
Overflows(c) == c = << LimbBase - 1, LimbBase - 1 >>

InitHold ==
    /\ PoolAtRest
    /\ EnvAtRest
    /\ UnisonAtRest
    /\ VcAtRest
    /\ FltAtRest
    /\ RelAtRest
    /\ McpAtRest
    /\ \E sr \in HoldSampleRates :
          hold \in { HoldNew(sr) } \cup { Held(sr, c) : c \in HeldCounters }
    /\ holdStatus = "running"

\* Envelope::note_on
HoldNoteOn ==
    /\ holdStatus # "panicked"
    /\ hold' = [ EnvelopeNoteOn(hold) EXCEPT !.samples_elapsed = << 0, 0 >> ]
    /\ UNCHANGED holdStatus
    /\ UNCHANGED << poolVars, envVars, unisonVars, vcVars, fltVars, relVars, mcpVars >>

\* Envelope::note_off
HoldNoteOff ==
    /\ holdStatus # "panicked"
    /\ hold' = IF hold.stage # "Idle"
               THEN [ EnvelopeNoteOff(hold) EXCEPT !.samples_elapsed = << 0, 0 >> ]
               ELSE hold
    /\ UNCHANGED holdStatus
    /\ UNCHANGED << poolVars, envVars, unisonVars, vcVars, fltVars, relVars, mcpVars >>

\* One call of Envelope::process: the match on the stage, which sets the counter
\* to 0 when it changes the stage, then the increment.  When the increment
\* overflows, a build with overflow checks panics with the counter at u32::MAX
\* and one without wraps to 0.  In Sustain and Idle, where the counter grows
\* without end, the calls are followed near the carries of the low limb.
HoldProcess ==
    /\ holdStatus # "panicked"
    /\ hold.stage \in { "Sustain", "Idle" } =>
          \/ hold.samples_elapsed[2] < MaxHoldSingles
          \/ hold.samples_elapsed[2] >= LimbBase - MaxHoldSingles
    /\ LET e == [ hold EXCEPT !.samples_elapsed = CounterView(@) ]
           s == EnvelopeStep(e, HoldParams.attack, HoldParams.decay,
                             HoldParams.sustain, HoldParams.release)
           c == IF s.stage # hold.stage THEN << 0, 0 >> ELSE hold.samples_elapsed
       IN  IF Overflows(c)
           THEN \/ /\ holdStatus' = "panicked"
                   /\ hold' = [ s EXCEPT !.samples_elapsed = c ]
                \/ /\ holdStatus' = "wrapped"
                   /\ hold' = [ s EXCEPT !.samples_elapsed = << 0, 0 >> ]
           ELSE /\ holdStatus' = holdStatus
                /\ hold' = [ s EXCEPT !.samples_elapsed = LimbSucc(c) ]
    /\ UNCHANGED << poolVars, envVars, unisonVars, vcVars, fltVars, relVars, mcpVars >>

NextHold == HoldNoteOn \/ HoldNoteOff \/ HoldProcess

SpecHold == InitHold /\ [][NextHold]_vars

----------------------------------------------------------------------------
(* A single BiquadFilter: set_coefficients *)

FilterModes == { "LowPass", "HighPass", "BandPass", "Notch" }

\* 40 Hz is below 20 / 0.49 Hz, the rates from which the cutoff's clamp is defined.
FltSampleRates == { 40, 1000, DefaultSampleRate }

\* Cutoffs below the floor of 20 Hz, in range, and at the top of the parameter.
FltCutoffs == { 1000, 25000, 2000000 }

\* Resonances in [0, 1] and below 0.
FltResonances == { -LevelOne \div 10, -(3 * LevelOne) \div 100, 0, LevelOne \div 2, LevelOne }

FltInSpace == [ mode : FilterModes, cutoff : FltCutoffs, resonance : FltResonances ]

InitFilter ==
    /\ PoolAtRest
    /\ EnvAtRest
    /\ UnisonAtRest
    /\ VcAtRest
    /\ HoldAtRest
    /\ RelAtRest
    /\ McpAtRest
    /\ \E sr \in FltSampleRates : flt = FilterNew(sr)
    /\ fltIn \in FltInSpace
    /\ fltLast = NoFltLast

FltSetCoefficients ==
    /\ fltLast.op # "panicked"
    /\ flt' = FilterSetCoefficients(flt, fltIn.mode, fltIn.cutoff, fltIn.resonance)
    /\ fltLast' =
         IF FilterCutoff(fltIn.cutoff, flt.sample_rate) = ClampPanic
         THEN [ fltLast EXCEPT !.op = "panicked" ]
         ELSE [ op |-> "set_coefficients",
                q |-> FilterQ(fltIn.resonance),
                alpha |-> FilterAlpha(fltIn.cutoff, fltIn.resonance, flt.sample_rate) ]
    /\ UNCHANGED fltIn
    /\ UNCHANGED << poolVars, envVars, unisonVars, vcVars, holdVars, relVars,
                    mcpVars >>

\* BiquadFilter::process
FltProcess ==
    /\ fltLast.op # "panicked"
    /\ flt' = FilterProcess(flt)
    /\ fltLast' = [ fltLast EXCEPT !.op = "process" ]
    /\ UNCHANGED fltIn
    /\ UNCHANGED << poolVars, envVars, unisonVars, vcVars, holdVars, relVars,
                    mcpVars >>

\* BiquadFilter::set_sample_rate
FltSetSampleRate(sr) ==
    /\ fltLast.op # "panicked"
    /\ flt' = FilterSetSampleRate(flt, sr)
    /\ fltLast' = [ fltLast EXCEPT !.op = "set_sample_rate" ]
    /\ UNCHANGED fltIn
    /\ UNCHANGED << poolVars, envVars, unisonVars, vcVars, holdVars, relVars,
                    mcpVars >>

NextFilter ==
    \/ FltSetCoefficients
    \/ FltProcess
    \/ \E sr \in FltSampleRates : FltSetSampleRate(sr)

SpecFilter == InitFilter /\ [][NextFilter]_vars

----------------------------------------------------------------------------
(* One voice of the pool through its release, under continued rendering *)

MaxRelEvents == 3

MaxRelHold == 2

MaxRelCount == 6

RelSampleRates == { 1000 }

RelNotes == { 60, 69 }

\* The parameters the render loop reads, constant: release 0.002 s.
RelParams ==
    [ attack |-> 2, decay |-> 2, sustain |-> LevelOne \div 2, release |-> 4,
      octave |-> OctaveParam,
      unison_voices |-> << 1, 1, 1 >>, unison_detune |-> << 0, 0, 0 >> ]

\* release_samples of the Release arm under RelParams
RelSamples(v) == StageSamples(Max(RelParams.release, MinTime), v.envelope.sample_rate)

\* Samples rendered since the envelope entered Release, 0 outside Release.
RelCount(v, v2, rendered) ==
    IF v2.envelope.stage # "Release" THEN 0
    ELSE IF v.envelope.stage # "Release" THEN 0
    ELSE IF rendered THEN Min(rel + 1, MaxRelCount)
    ELSE rel

\* The voice after SineSynth::initialize.
InitRelease ==
    /\ PoolAtRest
    /\ EnvAtRest
    /\ UnisonAtRest
    /\ HoldAtRest
    /\ FltAtRest
    /\ McpAtRest
    /\ \E sr \in RelSampleRates :
          vc = VoiceSetSampleRate(VoiceNew(DefaultSampleRate), sr)
    /\ vcLast = NoVcLast
    /\ vcOps = 0
    /\ rel = 0

RelStep(op, note, v2, rendered) ==
    /\ vc' = v2
    /\ vcLast' = [ op |-> op, note |-> note, velocity |-> 0, before |-> vc ]
    /\ rel' = RelCount(vc, v2, rendered)
    /\ UNCHANGED << poolVars, envVars, unisonVars, holdVars, fltVars, mcpVars >>

\* The NoteOn arm reaching this voice (as the free voice or the stolen one).
RelNoteOn(note) ==
    /\ vcOps < MaxRelEvents
    /\ vcOps' = vcOps + 1
    /\ RelStep("note_on", note, VoiceNoteOn(vc, note, LevelOne), FALSE)

\* The NoteOff arm: note_off when the voice holds the note and is active.
RelNoteOff(note) ==
    /\ vcOps < MaxRelEvents
    /\ vcOps' = vcOps + 1
    /\ RelStep("note_off", note,
               IF NoteOffMatches(vc, note) THEN VoiceNoteOff(vc) ELSE vc, FALSE)

\* The Choke arm.
RelChoke ==
    /\ vcOps < MaxRelEvents
    /\ vcOps' = vcOps + 1
    /\ RelStep("choke", 0, ChokeVoice(vc), FALSE)

\* One sample of the render loop; a voice held before its release is
\* followed for MaxRelHold samples of each stage.
RelRender ==
    /\ vc.envelope.stage # "Release" => vc.envelope.samples_elapsed <= MaxRelHold
    /\ UNCHANGED vcOps
    /\ \E v2 \in { RenderVoice(vc, RelParams, vc.envelope.sample_rate) } :
            RelStep("render", 0, v2, TRUE)

NextRelease ==
    \/ \E note \in RelNotes : RelNoteOn(note)
    \/ \E note \in RelNotes : RelNoteOff(note)
    \/ RelChoke
    \/ RelRender

SpecRelease == InitRelease /\ [][NextRelease]_vars

\* The host keeps calling process: a sample that can be rendered is rendered.
SpecReleaseLive == SpecRelease /\ WF_vars(RelRender)

----------------------------------------------------------------------------
(* The MCP tools called by concurrent clients, and the render loop *)

MaxMcpCalls == 2

\* Samples a note of the playing plugin is held in Sustain for.
MaxMcpHold == 1

\* A set_oscillator call that sets nothing.
OscRequest(o) ==
    [ tool |-> "set_oscillator", oscillator |-> o, waveform |-> << >>,
      frequency |-> << >>, detune |-> << >>, phase |-> << >>, gain |-> << >>,
      octave |-> << >>, unison_voices |-> << >>, unison_detune |-> << >>,
      unison_blend |-> << >>, unison_volume |-> << >> ]

\* Every number below its range.
OscRequestLow(o) ==
    [ OscRequest(o) EXCEPT
        !.waveform = << "Triangle" >>, !.frequency = << 1999 >>, !.detune = << -101 >>,
        !.phase = << -1 >>, !.gain = << -1 >>, !.octave = << -5 >>,
        !.unison_voices = << 0 >>, !.unison_detune = << -1 >>,
        !.unison_blend = << -LevelOne >>, !.unison_volume = << -1 >> ]

\* Every number above its range.
OscRequestHigh(o) ==
    [ OscRequest(o) EXCEPT
        !.frequency = << 2000001 >>, !.detune = << 101 >>,
        !.phase = << LevelOne + 1 >>, !.gain = << 2 * LevelOne >>, !.octave = << 5 >>,
        !.unison_voices = << 9 >>, !.unison_detune = << 51 >>,
        !.unison_blend = << LevelOne + 1 >>, !.unison_volume = << LevelOne + 1 >> ]

OscRequests ==
    { OscRequestLow(o) : o \in 1..3 } \cup { OscRequestHigh(o) : o \in 0..4 }
        \cup { [ OscRequest(o) EXCEPT !.waveform = << "Noise" >>,
                                       !.frequency = << 2000001 >>,
                                       !.octave = << 2 >> ] : o \in 1..3 }
        \cup { [ OscRequest(o) EXCEPT !.frequency = << 100000 >>,
                                       !.unison_voices = << 4 >> ] : o \in 1..3 }

FilterRequests ==
    { [ tool |-> "set_filter", mode |-> << "Notch" >>, cutoff |-> << 1999 >>,
        resonance |-> << -1 >>, drive |-> << LevelOne - 1 >> ],
      [ tool |-> "set_filter", mode |-> << >>, cutoff |-> << 2000001 >>,
        resonance |-> << LevelOne + 1 >>, drive |-> << 5 * LevelOne + 1 >> ],
      [ tool |-> "set_filter", mode |-> << "lowpass" >>, cutoff |-> << 100000 >>,
        resonance |-> << LevelOne \div 2 >>, drive |-> << 2 * LevelOne >> ],
      [ tool |-> "set_filter", mode |-> << "HighPass" >>, cutoff |-> << 100000 >>,
        resonance |-> << >>, drive |-> << >> ] }

EnvelopeRequests ==
    { [ tool |-> "set_envelope", attack |-> << 0 >>, decay |-> << 1 >>,
        sustain |-> << -1 >>, release |-> << 0 >> ],
      [ tool |-> "set_envelope", attack |-> << 5 * TimeDen + 1 >>,
        decay |-> << 6 * TimeDen >>, sustain |-> << LevelOne + 1 >>,
        release |-> << 10 * TimeDen + 1 >> ],
      [ tool |-> "set_envelope", attack |-> << >>, decay |-> << >>,
        sustain |-> << >>, release |-> << 4 * TimeDen >> ] }

McpRequests == OscRequests \cup FilterRequests \cup EnvelopeRequests

InitMcp ==
    /\ PoolAtRest
    /\ EnvAtRest
    /\ UnisonAtRest
    /\ VcAtRest
    /\ HoldAtRest
    /\ FltAtRest
    /\ RelAtRest
    /\ McpAtRest

\* A client calls a tool: the handler runs up to "self.params.write().await";
\* set_oscillator with a bad oscillator number returns its error before that.
McpCall(c, r) ==
    /\ mcpPc[c] = "idle"
    /\ mcpCalls < MaxMcpCalls
    /\ mcpCalls' = mcpCalls + 1
    /\ IF RejectedBeforeLock(r)
       THEN /\ mcpLast' = [ client |-> c, request |-> r, ok |-> FALSE, before |-> mcp ]
            /\ UNCHANGED << mcpPc, mcpReq >>
       ELSE /\ mcpPc' = [ mcpPc EXCEPT ![c] = "waiting" ]
            /\ mcpReq' = [ mcpReq EXCEPT ![c] = r ]
            /\ UNCHANGED mcpLast
    /\ UNCHANGED << mcp, mcpLock, mcpRead >>
    /\ UNCHANGED << poolVars, envVars, unisonVars, vcVars, holdVars, fltVars, relVars >>

\* The write lock is granted to a waiting handler when no one holds it.
McpLockWrite(c) ==
    /\ mcpPc[c] = "waiting"
    /\ mcpLock = 0
    /\ mcpLock' = c
    /\ mcpPc' = [ mcpPc EXCEPT ![c] = "writing" ]
    /\ UNCHANGED << mcp, mcpReq, mcpLast, mcpCalls, mcpRead >>
    /\ UNCHANGED << poolVars, envVars, unisonVars, vcVars, holdVars, fltVars, relVars >>

\* The rest of the handler, which has no await: the checks, the writes and
\* the return, which drops the lock guard.
McpReturn(c) ==
    /\ mcpPc[c] = "writing"
    /\ mcpLock = c
    /\ LET res == CallTool(mcp, mcpReq[c])
       IN  /\ mcp' = res.state
           /\ mcpLast' = [ client |-> c, request |-> mcpReq[c], ok |-> res.ok,
                           before |-> mcp ]
    /\ mcpLock' = 0
    /\ mcpPc' = [ mcpPc EXCEPT ![c] = "idle" ]
    /\ mcpReq' = [ mcpReq EXCEPT ![c] = NoRequest ]
    /\ UNCHANGED << mcpCalls, mcpRead >>
    /\ UNCHANGED << poolVars, envVars, unisonVars, vcVars, holdVars, fltVars, relVars >>

NextMcp ==
    \/ \E c \in Clients, r \in McpRequests : McpCall(c, r)
    \/ \E c \in Clients : McpLockWrite(c)
    \/ \E c \in Clients : McpReturn(c)

SpecMcp == InitMcp /\ [][NextMcp]_vars

----------------------------------------------------------------------------
(* The MCP server's set_envelope beside the plugin that plays *)

McpNotes == { 60, 69 }

\* The plugin initialised at 1000 Hz, its ADSR parameters set by the host to
\* stages of 1, 1 and 2 samples; no tool call yet.
InitMcpLive ==
    /\ voices = [ i \in Voices |-> VoiceSetSampleRate(VoiceNew(DefaultSampleRate), 1000) ]
    /\ sample_rate = 1000
    /\ params = RelParams
    /\ smoothers = SmoothersNew(RelParams)
    /\ pc = "host"
    /\ queue = << >>
    /\ frames = 0
    /\ delivered = << >>
    /\ applied = << >>
    /\ last = NoLast
    /\ run = << >>
    /\ runOk = TRUE
    /\ ops = 0
    /\ EnvAtRest
    /\ UnisonAtRest
    /\ VcAtRest
    /\ HoldAtRest
    /\ FltAtRest
    /\ RelAtRest
    /\ McpAtRest

\* Note n sounds and has not been released.
McpHeld(vs, n) ==
    \E i \in Voices :
        /\ VoiceIsActive(vs[i])
        /\ vs[i].note = n
        /\ vs[i].envelope.stage # "Release"

\* The event lists a block can carry: none, a note or a chord pressed, a note
\* or the chord released.
McpScriptSpace ==
    { << >>, << NoteOn(69, LevelOne) >>, << NoteOn(60, LevelOne), NoteOn(69, LevelOne) >>,
      << NoteOff(60) >>, << NoteOff(69) >>, << NoteOff(60), NoteOff(69) >> }

\* The event lists the player produces: keys are pressed when no voice sounds,
\* and held keys are released.
McpScripts(vs) ==
    { s \in McpScriptSpace :
        \A k \in 1..Len(s) :
            /\ s[k].type = "NoteOn" => SmootherCalls(vs) = 0
            /\ s[k].type = "NoteOff" => McpHeld(vs, s[k].note) }

\* The event loop of SineSynth::process over the block's events.
RECURSIVE ApplyEvents(_, _)
ApplyEvents(vs, q) ==
    IF Drained(q) THEN vs ELSE ApplyEvents(ApplyEvent(vs, NextOf(q)), Tail(q))

\* SineSynth::process on a buffer of one sample, its event loop.  A block is not
\* begun while a voice has been in Sustain for MaxMcpHold samples, unless it
\* releases it.
McpEvents(script) ==
    /\ pc = "host"
    /\ script \in McpScripts(voices)
    /\ voices' = ApplyEvents(voices, script)
    /\ \A i \in Voices :
          (VoiceIsActive(voices'[i]) /\ voices'[i].envelope.stage = "Sustain")
              => voices'[i].envelope.samples_elapsed <= MaxMcpHold
    /\ pc' = "render"
    /\ frames' = 1
    /\ UNCHANGED << sample_rate, params, smoothers, queue, delivered, applied, last, run, runOk, ops >>
    /\ UNCHANGED mcpVars
    /\ UNCHANGED << envVars, unisonVars, vcVars, holdVars, fltVars, relVars >>

\* The render loop of that call, and its return.  The body of the voice loop
\* reads the envelope times from self.params, the plugin's own parameter
\* object, once for every sounding voice and not at all when no voice sounds.
McpRender ==
    /\ pc = "render"
    /\ voices' = [ i \in Voices |-> RenderVoice(voices[i], params, sample_rate) ]
    /\ mcpRead' =
          IF SmootherCalls(voices) = 0
          THEN [ mcpRead EXCEPT !.reads = 0 ]
          ELSE [ reads |-> SmootherCalls(voices),
                 attack |-> Max(params.attack, MinTime),
                 decay |-> Max(params.decay, MinTime),
                 sustain |-> Max(0, Min(params.sustain, LevelOne)),
                 release |-> Max(params.release, MinTime) ]
    /\ pc' = "host"
    /\ frames' = 0
    /\ UNCHANGED << sample_rate, params, smoothers, queue, delivered, applied, last, run, runOk, ops >>
    /\ UNCHANGED << mcp, mcpLock, mcpPc, mcpReq, mcpLast, mcpCalls >>
    /\ UNCHANGED << envVars, unisonVars, vcVars, holdVars, fltVars, relVars >>

NextMcpLive ==
    \/ \E c \in Clients, r \in EnvelopeRequests : McpCall(c, r)
    \/ \E c \in Clients : McpLockWrite(c)
    \/ \E c \in Clients : McpReturn(c)
    \/ \E script \in McpScriptSpace : McpEvents(script)
    \/ McpRender

\* The host keeps calling process, the player keeps pressing and releasing
\* keys, and a handler that can go on does.  A call of process that has run
\* its event loop goes on to render and return: McpRender is enabled whenever
\* pc = "render" and is the only step that leaves it, so its weak fairness is
\* written on the state.
SpecMcpLive ==
    /\ InitMcpLive
    /\ [][NextMcpLive]_vars
    /\ []<>(pc # "render")
    /\ WF_vars(\E script \in McpScriptSpace : McpEvents(script))
    /\ SF_vars(\E script \in McpScriptSpace : script # << >> /\ McpEvents(script))
    /\ \A c \in Clients : WF_vars(McpLockWrite(c)) /\ WF_vars(McpReturn(c))

----------------------------------------------------------------------------
(* Steps of the plugin, as seen from outside *)

\* An event of the given kind has just been applied.
EventStep(kind) ==
    /\ pc = "events"
    /\ Len(applied') = Len(applied) + 1
    /\ last'.op = kind

NoteOnStep == EventStep("NoteOn") /\ last'.velocity > 0

RenderStep == pc = "render" /\ frames' = frames - 1 /\ last'.op = "Render"

ResetStep == pc = "host" /\ ops' = ops + 1 /\ last'.op = "Reset"

Elapsed(vs, i) == vs[i].envelope.samples_elapsed

----------------------------------------------------------------------------
(* Claims *)

\* C1: after a Choke event is applied every voice has active = FALSE at once
\* and no voice runs an envelope Release.
C1_ChokeSilencesAll ==
    last.op = "Choke" =>
        \A i \in Voices : ~voices[i].active /\ voices[i].envelope.stage # "Release"

\* C2: from an all-inactive pool, up to PoolSize NoteOns (velocity > 0) with no
\* NoteOff, Choke or reset in between each initialise a different voice; the
\* next one re-initialises exactly one voice that is already active (the one
\* steal), that voice holds its note and every other voice keeps the note of
\* the NoteOn that initialised it.
C2_SeventeenNoteOns ==
    runOk =>
        LET n     == Len(run)
            first == IF n <= PoolSize THEN n ELSE PoolSize
        IN  /\ n <= PoolSize + 1
            /\ \A j, k \in 1..first : j # k => run[j].target # run[k].target
            /\ Cardinality({ i \in Voices : voices[i].active }) = first
            /\ n <= PoolSize =>
                  \A k \in 1..n : voices[run[k].target].note = run[k].note
            /\ n = PoolSize + 1 =>
                  /\ Cardinality({ k \in 1..n :
                                     \E j \in 1..(k - 1) : run[j].target = run[k].target }) = 1
                  /\ voices[run[n].target].note = run[n].note
                  /\ \A k \in 1..PoolSize :
                        run[k].target # run[n].target =>
                            voices[run[k].target].note = run[k].note
                  /\ Cardinality({ run[k].target : k \in 1..PoolSize }
                                    \ { run[n].target }) = PoolSize - 1

C2_Witness == runOk /\ Len(run) = PoolSize + 1

\* C3: a NoteOn (velocity > 0) that finds every voice active gives note_on to
\* the voice with the least samples_elapsed, the lowest index among equals,
\* and touches no other voice.
C3_StealFirstLeastElapsed ==
    [][ (NoteOnStep /\ \A i \in Voices : voices[i].active) =>
          LET t == last'.target
          IN  /\ t \in Voices
              /\ last'.stolen
              /\ \A j \in Voices : Elapsed(voices, t) <= Elapsed(voices, j)
              /\ \A j \in Voices : j < t => Elapsed(voices, j) > Elapsed(voices, t)
              /\ voices'[t].note = last'.note
              /\ voices'[t].envelope.stage = "Attack"
              /\ voices'[t].envelope.samples_elapsed = 0
              /\ \A j \in Voices : j # t => voices'[j] = voices[j] ]_vars

C3_Witness ==
    /\ last.op = "NoteOn"
    /\ last.stolen
    /\ last.target > 1
    /\ \E j \in Voices : j > last.target /\ Elapsed(voices, j) > 0

\* C4: a NoteOn (velocity > 0) that finds a voice with active = FALSE gives
\* the note to such a voice, leaves every voice that was active unchanged,
\* and changes exactly one voice.
C4_FreeVoiceNoSteal ==
    [][ (NoteOnStep /\ \E i \in Voices : ~voices[i].active) =>
          /\ last'.target \in Voices
          /\ ~last'.stolen
          /\ ~voices[last'.target].active
          /\ voices'[last'.target].active
          /\ voices'[last'.target].note = last'.note
          /\ \A j \in Voices : voices[j].active => voices'[j] = voices[j]
          /\ Cardinality({ j \in Voices : voices'[j] # voices[j] }) = 1 ]_vars

C4_Witness ==
    /\ last.op = "NoteOn"
    /\ last.velocity > 0
    /\ ~last.stolen
    /\ last.target > 1
    /\ \A j \in Voices : j < last.target => voices[j].active

\* C5: after NoteOff(n) is applied every voice that stores note n and whose
\* envelope is not Idle is in Release with samples_elapsed = 0, and every voice
\* that stores another note is unchanged.
C5_NoteOffReleasesAllMatching ==
    [][ EventStep("NoteOff") =>
          \A i \in Voices :
              /\ ( /\ voices'[i].note = last'.note
                   /\ voices'[i].envelope.stage # "Idle" )
                    => ( /\ voices'[i].envelope.stage = "Release"
                         /\ Elapsed(voices', i) = 0 )
              /\ voices[i].note # last'.note => voices'[i] = voices[i] ]_vars

\* C6: the events of a block are applied in arrival order, all of them before
\* the first sample is rendered, and none is left for a later block.
C6_EventsBeforeSamples ==
    /\ pc = "events" => applied \o queue = delivered
    /\ pc = "render" => (queue = << >> /\ applied = delivered)
    /\ pc \in { "new", "host" } => (queue = << >> /\ delivered = << >>)

C6_Witness ==
    /\ pc = "render"
    /\ frames > 0
    /\ Len(delivered) = 2
    /\ delivered[1].type = "NoteOn"
    /\ delivered[2].type = "NoteOff"
    /\ \E i \in Voices : voices[i].envelope.stage = "Release"

\* ceil(t * sample_rate) calls
CeilSamples(t, sr) == (t * sr + TimeDen - 1) \div TimeDen

\* the whole samples of max(t * sample_rate, 1), the product taken in f32
WholeSamples(t, sr) ==
    LET n == F32MulTrunc(F32OfTime(t), sr) IN IF n >= 1 THEN n ELSE 1

\* C7 as stated: from Idle, note_on and then ceil(attack * sample_rate) process
\* calls leave the envelope in Decay at level 1.0.
C7_AttackDoneAfterCeil ==
    ( /\ envSince = "note_on"
      /\ envFrom = "Idle"
      /\ envCalls = CeilSamples(envParams.attack, env.sample_rate) )
        => (env.stage = "Decay" /\ env.current_level = LevelOne)

\* C7 amended: from Idle, note_on and then floor(max(attack * sample_rate, 1)) + 1
\* process calls leave the envelope in Decay at level 1.0.
C7_AttackDoneAfterWholePlusOne ==
    ( /\ envSince = "note_on"
      /\ envFrom = "Idle"
      /\ envCalls = WholeSamples(envParams.attack, env.sample_rate) + 1 )
        => (env.stage = "Decay" /\ env.current_level = LevelOne)

C7_Witness ==
    /\ envSince = "note_on"
    /\ envFrom = "Idle"
    /\ (envParams.attack * env.sample_rate) % TimeDen = 0
    /\ envCalls = WholeSamples(envParams.attack, env.sample_rate) + 1
    /\ envCalls > 2
    /\ env.stage = "Decay"

\* C8 as stated: note_off in Sustain and then ceil(release * sample_rate)
\* process calls leave the envelope Idle at level 0.
C8_ReleaseDoneAfterCeil ==
    ( /\ envSince = "note_off"
      /\ envFrom = "Sustain"
      /\ envCalls = CeilSamples(envParams.release, env.sample_rate) )
        => (env.stage = "Idle" /\ env.current_level = 0)

\* C8 amended: note_off in Sustain and then floor(max(release * sample_rate, 1)) + 1
\* process calls leave the envelope Idle at level 0.
C8_ReleaseDoneAfterWholePlusOne ==
    ( /\ envSince = "note_off"
      /\ envFrom = "Sustain"
      /\ envCalls = WholeSamples(envParams.release, env.sample_rate) + 1 )
        => (env.stage = "Idle" /\ env.current_level = 0)

C8_Witness ==
    /\ envSince = "note_off"
    /\ envFrom = "Sustain"
    /\ (envParams.release * env.sample_rate) % TimeDen = 0
    /\ envParams.sustain > 0
    /\ envCalls = WholeSamples(envParams.release, env.sample_rate) + 1
    /\ envCalls = (envParams.release * env.sample_rate) \div TimeDen
    /\ envCalls > 2
    /\ env.stage = "Idle"

\* C9: note_off leaves an active voice active; from then on every sample
\* renders the voice, a sample clears active exactly when it takes the envelope
\* from Release to Idle, and no other step clears the active flag of a
\* releasing voice.
C9_ActiveUntilIdle ==
    [][ \A i \in Voices :
          /\ ( /\ EventStep("NoteOff")
               /\ voices[i].active
               /\ voices[i].note = last'.note )
                => ( /\ voices'[i].active
                     /\ voices'[i].envelope.stage = "Release" )
          /\ ( /\ RenderStep
               /\ voices[i].active
               /\ voices[i].envelope.stage = "Release" )
                => ( /\ i \in last'.rendered
                     /\ voices'[i].filter.x1 = 1
                     /\ voices'[i].envelope.stage \in { "Release", "Idle" }
                     /\ voices'[i].active <=> voices'[i].envelope.stage # "Idle" )
          /\ ( /\ voices[i].active
               /\ voices[i].envelope.stage = "Release"
               /\ ~voices'[i].active )
                => ( RenderStep /\ voices'[i].envelope.stage = "Idle" ) ]_vars

\* C10 as stated: active goes from TRUE to FALSE only in a render step that
\* takes the envelope from Release to Idle, or when a Choke is applied.
C10_ClearedOnlyByIdleOrChoke ==
    [][ \A i \in Voices :
          (voices[i].active /\ ~voices'[i].active) =>
              \/ ( /\ RenderStep
                   /\ voices[i].envelope.stage = "Release"
                   /\ voices'[i].envelope.stage = "Idle" )
              \/ EventStep("Choke") ]_vars

\* C10 amended: active goes from TRUE to FALSE only in a render step that
\* takes the envelope from Release to Idle, when a Choke is applied, or in the
\* host reset callback.
C10_ClearedOnlyByIdleChokeOrReset ==
    [][ \A i \in Voices :
          (voices[i].active /\ ~voices'[i].active) =>
              \/ ( /\ RenderStep
                   /\ voices[i].envelope.stage = "Release"
                   /\ voices'[i].envelope.stage = "Idle" )
              \/ EventStep("Choke")
              \/ ResetStep ]_vars

C10_Witness ==
    /\ last.op = "Reset"
    /\ \E i \in last.deactivated :
          /\ ~voices[i].active
          /\ voices[i].envelope.stage \in { "Attack", "Decay", "Sustain" }

\* C11: Voice::note_on(note, velocity), on a voice in any state, leaves it
\* active with the note and velocity stored, base_frequency derived from the
\* note (440 Hz for note 69, doubling every 12 notes), every phase of the three
\* banks 0, the filter history 0 and the envelope in Attack with
\* samples_elapsed = 0.
C11_NoteOnInitialisesVoice ==
    vcLast.op = "note_on" =>
        /\ vc.active
        /\ vc.note = vcLast.note
        /\ vc.velocity = vcLast.velocity
        /\ vc.note = 69 => vc.base_frequency = 44000
        /\ vc.note = 81 => vc.base_frequency = 88000
        /\ vc.note = 60 => (vc.base_frequency > 26100 /\ vc.base_frequency < 26200)
        /\ \A b \in 1..NumBanks : \A k \in 1..BankCapacity : vc.osc[b].phase[k] = 0
        /\ vc.filter.x1 = 0 /\ vc.filter.x2 = 0
        /\ vc.filter.y1 = 0 /\ vc.filter.y2 = 0
        /\ vc.envelope.stage = "Attack"
        /\ vc.envelope.samples_elapsed = 0

C11_Witness ==
    /\ vcLast.op = "note_on"
    /\ vcLast.note = 81
    /\ vcLast.before.active
    /\ vcLast.before.note = 69
    /\ vcLast.before.envelope.stage = "Release"
    /\ vcLast.before.filter.x1 = 1
    /\ \E b \in 1..NumBanks : \E k \in 2..BankCapacity : vcLast.before.osc[b].phase[k] > 0
    /\ vc.base_frequency = 88000

\* C12: every sample of the render loop calls next() exactly once on each
\* smoothed parameter, however many voices are sounding.
C12_OneNextPerSample ==
    last.op = "Render" => last.nexts = 1

\* C13: no sequence of note events and rendered samples makes the core panic,
\* and the increment of samples_elapsed never overflows, however long a voice
\* is held in Sustain.
C13_CounterNeverOverflows ==
    holdStatus \notin { "panicked", "wrapped" }

\* The stage changes that one call of process may make.
ProcessEdges ==
    { << "Idle", "Idle" >>, << "Attack", "Attack" >>, << "Attack", "Decay" >>,
      << "Decay", "Decay" >>, << "Decay", "Sustain" >>, << "Sustain", "Sustain" >>,
      << "Release", "Release" >>, << "Release", "Idle" >> }

\* C14: note_on takes every stage to Attack; note_off takes Attack, Decay,
\* Sustain and Release to Release and leaves Idle alone; one call of process
\* takes Attack to Decay, Decay to Sustain, Release to Idle or keeps the stage,
\* and never leaves Sustain or Idle.
C14_StageEdges ==
    [][ /\ (envCalls' = 0 /\ envSince' = "note_on") => env'.stage = "Attack"
        /\ (envCalls' = 0 /\ envSince' = "note_off") =>
              env'.stage = IF env.stage = "Idle" THEN "Idle" ELSE "Release"
        /\ envCalls' = envCalls + 1 => << env.stage, env'.stage >> \in ProcessEdges ]_vars

C14_Witness ==
    /\ envSince = "note_off"
    /\ envFrom = "Decay"
    /\ envCalls > 0
    /\ env.stage = "Idle"

\* C15: an envelope in stage Idle has current_level 0.
C15_IdleIsSilent ==
    env.stage = "Idle" => env.current_level = 0

C15_Witness ==
    /\ envSince = "note_off"
    /\ envFrom \in { "Attack", "Decay", "Sustain" }
    /\ env.release_start_level > 0
    /\ envCalls > 0
    /\ env.stage = "Idle"

\* C16: the voice count of a unison bank is at least 1 and at most the bank's
\* capacity, whatever count set_num_voices is asked for, so every slot that
\* process visits exists.
C16_NumVoicesInRange ==
    /\ unison.num_voices >= 1
    /\ unison.num_voices <= BankCapacity
    /\ unison.num_voices <= Len(unison.phase)
    /\ unison.num_voices <= Len(unison.detune_offset)

C16_Witness ==
    /\ unisonLast.op = "set_num_voices"
    /\ unisonLast.requested = AsUsize(-1)
    /\ unison.num_voices = BankCapacity

\* C17: a unison bank with num_voices = 1 has detune_offset 0 in its first
\* slot, also right after construction.
C17_SingleVoiceCentred ==
    unison.num_voices = 1 => unison.detune_offset[1] = 0

\* C18: the detune_offset of every slot of a bank, in use or not, lies in [-1, 1].
C18_AllOffsetsInRange ==
    \A k \in 1..BankCapacity :
        /\ unison.detune_offset[k] >= -OffsetOne
        /\ unison.detune_offset[k] <= OffsetOne

\* C19: the phase of every oscillator voice lies in [0, 2*pi) after every
\* call of process.
C19_PhaseInRange ==
    \A k \in 1..BankCapacity :
        /\ unison.phase[k] >= 0
        /\ unison.phase[k] < PhaseOne

\* The phase left by k advances of incr from 0, 2*pi taken off once per advance.
RECURSIVE PhaseAfter(_, _)
PhaseAfter(k, incr) ==
    IF k = 0 THEN 0
    ELSE LET q == PhaseAfter(k - 1, incr) + incr
         IN  IF q >= PhaseOne THEN q - PhaseOne ELSE q

\* base_freq / sample_rate * TAU of the single bank
UnisonIncr == (unisonIn.freq * (PhaseOne \div 100)) \div unisonIn.sample_rate

\* C20 as stated: on the single-voice path the k-th process call after a
\* reset returns the waveform evaluated at k increments plus the phase offset.
C20_EvaluatedAfterAdvance ==
    (unisonLast.op = "process" /\ unisonLast.single) =>
        LET at == PhaseAfter(unisonCalls, UnisonIncr) + unisonIn.phase_offset
        IN  /\ unisonLast.eval = at
            /\ unisonLast.sample =
                  (GenerateWaveform(unisonIn.waveform, at) * unisonIn.volume) \div LevelOne

\* C20 amended: on the single-voice path the k-th process call after a reset
\* returns the waveform evaluated at the phase left by k - 1 advances plus the
\* phase offset, and leaves the phase at k advances.
C20_EvaluatedBeforeAdvance ==
    (unisonLast.op = "process" /\ unisonLast.single) =>
        LET at == PhaseAfter(unisonCalls - 1, UnisonIncr) + unisonIn.phase_offset
        IN  /\ unisonLast.eval = at
            /\ unisonLast.sample =
                  (GenerateWaveform(unisonIn.waveform, at) * unisonIn.volume) \div LevelOne
            /\ unison.phase[1] = PhaseAfter(unisonCalls, UnisonIncr)

C20_Witness ==
    /\ unisonLast.op = "process"
    /\ unisonLast.single
    /\ unisonCalls = 2
    /\ unisonIn.freq < 100 * unisonIn.sample_rate
    /\ unisonLast.eval = UnisonIncr + unisonIn.phase_offset
    /\ unison.phase[1] = 2 * UnisonIncr

\* C21: with more than one unison voice the mono reference (index 0) is the
\* undetuned centre voice: its detune_offset is 0 and it runs at exactly
\* base_freq whatever the unison detune amount.
C21_MonoIsCentre ==
    unison.num_voices > 1 =>
        /\ unison.detune_offset[1] = 0
        /\ MonoFreq(unison, unisonIn.freq, unisonIn.detune_cents) = unisonIn.freq

\* C22: the Triangle waveform is +1 at a quarter turn and -1 at three quarters
\* of a turn, stays in [-1, 1], and has the same value just before the wrap
\* as at phase 0.
C22_TrianglePeakAtQuarterTurn ==
    (unisonLast.op = "process" /\ unisonLast.single /\ unisonIn.waveform = "Triangle") =>
        LET np == unisonLast.eval % PhaseOne
        IN  /\ np = PhaseOne \div 4 => unisonLast.sample = unisonIn.volume
            /\ np = (3 * PhaseOne) \div 4 => unisonLast.sample = -unisonIn.volume
            /\ unisonLast.sample >= -unisonIn.volume
            /\ unisonLast.sample <= unisonIn.volume
            /\ GenerateWaveform("Triangle", PhaseOne - 1)
                    - GenerateWaveform("Triangle", 0) \in -1..1

\* C23: the Q that set_coefficients uses for alpha is resonance * 10 + 0.5
\* floored at 0.5: it is never below 0.5, also for a resonance below 0.
C23_QNeverBelowHalf ==
    fltLast.op = "set_coefficients" =>
        /\ fltLast.q >= LevelOne \div 2
        /\ fltLast.q = Max(10 * fltIn.resonance + LevelOne \div 2, LevelOne \div 2)

\* C24: in every reachable state a voice's active flag is TRUE exactly when
\* its envelope is not Idle.
C24_ActiveIffNotIdle ==
    \A i \in Voices : voices[i].active <=> voices[i].envelope.stage # "Idle"

\* C25: after the host reset callback no voice is advanced and none
\* contributes to a sample until it gets a new note_on: a rendered sample
\* leaves every voice with active = FALSE (which only note_on sets) untouched.
C25_SilentAfterReset ==
    [][ RenderStep =>
          \A i \in Voices :
              ~voices[i].active =>
                  (voices'[i] = voices[i] /\ i \notin last'.rendered) ]_vars

\* C28: a NoteOn with velocity 0 leaves the whole voice pool unchanged.
C28_ZeroVelocityNoteOnIgnored ==
    [][ (EventStep("NoteOn") /\ last'.velocity <= 0) => voices' = voices ]_vars

C28_Witness ==
    /\ last.op = "NoteOn"
    /\ last.velocity = 0
    /\ last.target = 0
    /\ \E i \in Voices :
          /\ voices[i].active
          /\ voices[i].note = last.note
          /\ voices[i].envelope.stage = "Attack"
    /\ \E i \in Voices : ~voices[i].active

\* C26: under continued rendering a voice whose envelope is in Release and
\* that gets no further note_on or note_off reaches stage Idle with
\* active = FALSE.
C26_ReleaseEnds ==
    \A k \in 0..MaxRelEvents :
        (vc.envelope.stage = "Release" /\ vcOps = k)
            ~> ((vc.envelope.stage = "Idle" /\ ~vc.active) \/ vcOps > k)

C26_Witness ==
    /\ vcLast.op = "render"
    /\ vcLast.before.envelope.stage = "Release"
    /\ vcLast.before.active
    /\ vc.envelope.stage = "Idle"
    /\ ~vc.active

\* C27: a voice in Release reaches Idle within release_samples + 1 rendered
\* samples of entering Release, whatever NoteOff and Choke events arrive
\* while it is releasing: a voice still in Release has been rendered at most
\* release_samples times since it entered Release.
C27_ReleaseNotExtended ==
    vc.envelope.stage = "Release" => rel <= RelSamples(vc)

\* The documented ranges of the fields of one oscillator.
OscInRange(state, n) ==
    LET F == OscFields[n]
    IN  /\ state[F.waveform] \in WaveformNames
        /\ state[F.frequency] \in 2000..2000000
        /\ state[F.detune] \in -100..100
        /\ state[F.phase] \in 0..LevelOne
        /\ state[F.gain] \in 0..LevelOne
        /\ state[F.octave] \in -4..4
        /\ state[F.unison_voices] \in 1..8
        /\ state[F.unison_detune] \in 0..50
        /\ state[F.unison_blend] \in 0..LevelOne
        /\ state[F.unison_volume] \in 0..LevelOne

\* C29: after any sequence of set_oscillator, set_filter and set_envelope
\* calls by concurrent clients every field of the PluginState is inside its
\* documented range, every waveform and filter mode is a valid name, and a
\* call that returned an error has changed no field.
C29_StateInRange ==
    /\ \A n \in 1..3 : OscInRange(mcp, n)
    /\ mcp.filter_mode \in FilterModeNames
    /\ mcp.filter_cutoff \in 2000..2000000
    /\ mcp.filter_resonance \in 0..LevelOne
    /\ mcp.filter_drive \in LevelOne..(5 * LevelOne)
    /\ mcp.envelope_attack \in (TimeDen \div 1000)..(5 * TimeDen)
    /\ mcp.envelope_decay \in (TimeDen \div 1000)..(5 * TimeDen)
    /\ mcp.envelope_sustain \in 0..LevelOne
    /\ mcp.envelope_release \in (TimeDen \div 1000)..(10 * TimeDen)
    /\ ~mcpLast.ok => mcp = mcpLast.before

C29_Witness ==
    /\ ~mcpLast.ok
    /\ mcpLast.request.tool = "set_oscillator"
    /\ mcpLast.request.oscillator = 2
    /\ mcpLast.request.waveform = << "Noise" >>
    /\ mcpLast.request.frequency = << 2000001 >>
    /\ mcp.osc2_frequency = 2000
    /\ mcp.osc2_unison_voices = 1
    /\ mcp.osc2_octave = -4

\* The release times the model's set_envelope calls leave in the PluginState.
McpReleaseTimes == { TimeDen \div 1000, 4 * TimeDen, 10 * TimeDen }

\* C30: a release time accepted by set_envelope is read by some later sample
\* of the render loop.
C30_ChangeReachesRenderLoop ==
    \A r \in McpReleaseTimes :
        ( /\ mcpLast.ok
          /\ mcpLast.request.tool = "set_envelope"
          /\ mcp.envelope_release = r )
            ~> (mcpRead.reads > 0 /\ mcpRead.release = r)

====
